---- MODULE Spec2Model ----
(***************************************************************************)
(* Model of the olmocr-bench scoring engine (src/bench/benchmark.py):      *)
(* main with its loading of the data set, evaluate_candidate with its      *)
(* thread pool of process_test workers, main's sequential loop over the    *)
(* candidates with the per-JSONL aggregation and the export of the failed  *)
(* tests; of the approximate search of src/bench/miners/mine_math.py; and  *)
(* of the request handlers of src/bench/review_app.py; of main of          *)
(* src/bench/miners/delete_rejected.py; of process_folder of               *)
(* src/data/runopenaibatch.py; and of process_pdfs of src/bench/convert.py.*)
(***************************************************************************)
EXTENDS Integers, Sequences, FiniteSets, TLC

VARIABLES
    \* ---- inputs of one run of main (fixed once loaded)
    all_tests,              \* benchmark.py:222-256  the evaluated assertions, in order
    test_to_jsonl,          \* benchmark.py:223-238  test id -> provenance file
    pdf_basenames,          \* benchmark.py:211      PDFs found under pdfs/
    force,                  \* benchmark.py:169-173  --force
    candidate_folders,      \* benchmark.py:258-272  candidate names, sorted
    disk,                   \* candidate -> pdf -> page -> list of repeat-file contents
    max_workers,            \* benchmark.py:142      min(os.cpu_count() or 1, 64)
    args,                   \* benchmark.py:174-194  skip_baseline, sample, candidate, output_failed
    input_folder,           \* benchmark.py:196      the data directory: pdfs/ and the .jsonl files
    \* ---- main
    main_pc,                \* position of main
    cand_idx,               \* index of the candidate of the loop at line 278
    summary,                \* benchmark.py:274
    test_results_by_candidate, \* benchmark.py:275
    stdout,                 \* the lines main has printed to standard output
    exit_code,              \* the argument of sys.exit, once main has called it
    all_failed_tests,       \* benchmark.py:417-449  the tests handed to save_tests
    \* ---- the running call of evaluate_candidate
    ev_pc,                  \* position of evaluate_candidate
    candidate_errors,       \* benchmark.py:53
    test_failures,          \* benchmark.py:54
    test_type_breakdown,    \* benchmark.py:55
    all_test_scores,        \* benchmark.py:56
    test_results,           \* benchmark.py:57
    pdf_to_md_files,        \* benchmark.py:61
    total_test_score,       \* benchmark.py:139
    ret,                    \* the tuple returned at line 77 or 159
    fut,                    \* benchmark.py:143  one future per test: state, locals, result
    \* ---- mine_math.find_matching_content
    math_pc,                \* position of find_matching_content
    candidate_arr,          \* mine_math.py:178-180
    text_arr,               \* mine_math.py:181-183
    sim_threshold,          \* mine_math.py:162
    dp,                     \* mine_math.py:185
    best_end,               \* mine_math.py:186
    min_distance,           \* mine_math.py:186
    bt_i,                   \* mine_math.py:148  i of backtrack
    bt_j,                   \* mine_math.py:149  j of backtrack
    matched,                \* what find_matching_content returns
    \* ---- review_app
    FORCE,                  \* review_app.py:23
    ALL_PDFS,               \* review_app.py:22
    PDF_TESTS,              \* review_app.py:21
    CURRENT_PDF,            \* review_app.py:20
    dataset_file,           \* review_app.py:66-81  the tests in the dataset file on disk
    threads,                \* review_app.py:294    the server's request threads: position, temp file
    rendered,               \* the last response: a template, a redirect or JSON
    \* ---- delete_rejected.main
    dr_pc,                  \* position of main
    dry_run,                \* delete_rejected.py:125
    data_dir,               \* delete_rejected.py:124  pdfs/ and the .jsonl files on disk
    confirm,                \* delete_rejected.py:188  the answer read from standard input
    dr_result,              \* how main ended: the last message printed or the exit code
    \* ---- runopenaibatch.process_folder
    pf_pc,                  \* position of process_folder
    max_gb,                 \* runopenaibatch.py:168
    all_state,              \* runopenaibatch.py:85-112  the state file: filename -> entry
    work_item,              \* runopenaibatch.py:184     the file the last iteration picked
    waited,                 \* filename -> iterations since the file was last picked
    unfinished_then,        \* filename -> unfinished files when it was last picked
    \* ---- convert.process_pdfs, one candidate
    cv_pc,                  \* position of process_pdfs
    max_parallel,           \* convert.py:87
    tasks,                  \* convert.py:107-178  one entry per prepared task
    semaphore,              \* convert.py:171      the free slots of the semaphore
    completed,              \* convert.py:182
    pbar,                   \* convert.py:183      the updates of the progress bar
    printed                 \* convert.py:194      the line printed at the end

inputs == <<all_tests, test_to_jsonl, pdf_basenames, force, candidate_folders, disk,
            max_workers, args, input_folder>>

\* what main writes besides its summary
outputs == <<stdout, exit_code, all_failed_tests>>

benchVars == <<inputs, main_pc, cand_idx, summary, test_results_by_candidate, outputs,
               ev_pc, candidate_errors, test_failures, test_type_breakdown,
               all_test_scores, test_results, pdf_to_md_files, total_test_score,
               ret, fut>>

mathVars == <<math_pc, candidate_arr, text_arr, sim_threshold, dp, best_end, min_distance,
              bt_i, bt_j, matched>>

reviewVars == <<FORCE, ALL_PDFS, PDF_TESTS, CURRENT_PDF, dataset_file, threads, rendered>>

deleteVars == <<dr_pc, dry_run, data_dir, confirm, dr_result>>

batchVars == <<pf_pc, max_gb, all_state, work_item, waited, unfinished_then>>

\* the command-line tools besides benchmark.py
convertVars == <<cv_pc, max_parallel, tasks, semaphore, completed, pbar, printed>>

toolVars == <<deleteVars, batchVars, convertVars>>

\* the state of the other programs, which no step of benchmark.py touches
elsewhere == <<mathVars, reviewVars, toolVars>>

vars == <<benchVars, mathVars, reviewVars, toolVars>>

\* ------------------------------------------------------------------ bounds
\* most repeat files of one page in a candidate folder
MaxRepeats == 3
\* os.cpu_count() of the machine
MaxWorkers == 2
\* line 142: the cap of the pool size
PoolCap == 64
\* largest --sample
MaxSample == 1
\* longest candidate text and longest TeX text of mine_math
MaxPattern == 3
MaxText == 4
Min(a, b) == IF a <= b THEN a ELSE b

\* ------------------------------------------------------------- rationals
\* Python floats of the form P/R and their sums and means, kept exact.
RECURSIVE GCD(_, _)
GCD(a, b) == IF b = 0 THEN a ELSE GCD(b, a % b)

Rat(n, d) == LET g == GCD(n, d) IN IF n = 0 THEN [n |-> 0, d |-> 1] ELSE [n |-> n \div g, d |-> d \div g]
RZero == Rat(0, 1)
ROne == Rat(1, 1)
RAdd(x, y) == Rat(x.n * y.d + y.n * x.d, x.d * y.d)
RDivInt(x, k) == Rat(x.n, x.d * k)
RLess(x, y) == x.n * y.d < y.n * x.d
RHalf == Rat(1, 2)

RECURSIVE RSum(_)
RSum(s) == IF s = <<>> THEN RZero ELSE RAdd(Head(s), RSum(Tail(s)))

\* ------------------------------------------------------------ sequences
SeqsUpTo(S, n) == UNION {[1..k -> S] : k \in 0..n}
Range(s) == {s[i] : i \in DOMAIN s}

\* ------------------------------------------------------- the data set
\* Source documents under pdfs/ and their page counts.
PDFs == {"a", "b"}
NumPages(pdf) == IF pdf = "a" THEN 2 ELSE 1
PageKeys == {<<pdf, page>> \in PDFs \X (1..2) : page <= NumPages(pdf)}
Texts == {"x", "y"}
\* What a repeat file can hold: text containing "x" or "y", text on which
\* the matching function raises, or a file that cannot be read.
Contents == {"x", "y", "garbled", "unreadable"}

Test(id, pdf, page, text) == [id |-> id, pdf |-> pdf, page |-> page, type |-> "present", text |-> text]

\* BasePDFTest.run for a presence test or a baseline test (every repeat file
\* of the model holds some text): (passed, explanation), or an exception.
RunTest(test, content) ==
    IF content = "garbled" THEN [raised |-> TRUE, passed |-> FALSE, explanation |-> <<"exc", test.id>>]
    ELSE IF test.type = "baseline" THEN [raised |-> FALSE, passed |-> TRUE, explanation |-> <<"ok">>]
    ELSE IF content = test.text THEN [raised |-> FALSE, passed |-> TRUE, explanation |-> <<"ok">>]
    ELSE [raised |-> FALSE, passed |-> FALSE, explanation |-> <<"nomatch", test.id, content>>]

\* ------------------------------------------- process_test, lines 91-137
\* A repeat file of the candidate folder: which page it belongs to, its
\* repeat number and what reading it yields.
MdFile(pdf, page, n, content) == [pdf |-> pdf, page |-> page, n |-> n, content |-> content]

\* line 94: the files of md_files whose basename holds _pg{page}_
PageMdFiles(md_files, test) == SelectSeq(md_files, LAMBDA f : f.page = test.page)

\* a repeat that cannot be read left out of the count
RepeatStepSkipUnreadable(test, f, acc) ==
    LET counted == [acc EXCEPT !.num_repeats = @ + 1]
        r == RunTest(test, f.content)
    IN  IF f.content = "unreadable"
        THEN [acc EXCEPT !.local_errors = Append(@, <<"read", f.pdf, f.page, f.n>>)]
        ELSE IF r.raised
        THEN [counted EXCEPT !.local_errors = Append(@, <<"run", test.id, f.pdf, f.page, f.n>>),
                             !.explanations = Append(@, r.explanation)]
        ELSE IF r.passed
        THEN [counted EXCEPT !.repeat_passes = @ + 1]
        ELSE [counted EXCEPT !.explanations = Append(@, r.explanation)]

\* lines 103-123: the loop over the repeats of one test
RepeatStep(test, f, acc) ==
    LET counted == [acc EXCEPT !.num_repeats = @ + 1]
        r == RunTest(test, f.content)
    IN  IF f.content = "unreadable"
        THEN [counted EXCEPT !.local_errors = Append(@, <<"read", f.pdf, f.page, f.n>>)]
        ELSE IF r.raised
        THEN [counted EXCEPT !.local_errors = Append(@, <<"run", test.id, f.pdf, f.page, f.n>>),
                             !.explanations = Append(@, r.explanation)]
        ELSE IF r.passed
        THEN [counted EXCEPT !.repeat_passes = @ + 1]
        ELSE [counted EXCEPT !.explanations = Append(@, r.explanation)]

RECURSIVE RepeatLoop(_, _, _)
RepeatLoop(test, files, acc) ==
    IF files = <<>> THEN acc
    ELSE RepeatLoop(test, Tail(files), RepeatStep(test, Head(files), acc))

\* line 125
TestAvg(repeat_passes, num_repeats) ==
    IF num_repeats > 0 THEN Rat(repeat_passes, num_repeats) ELSE RZero

\* a tie counted as a pass
FinalPassedAtLeastHalf(test_avg) == ~RLess(test_avg, RHalf)

\* line 126
FinalPassed(test_avg) == RLess(RHalf, test_avg)

\* line 127
FinalExplanation(explanations) ==
    IF explanations # <<>> THEN explanations[1] ELSE <<"All repeats passed">>

\* Python's None, and the test_failure message of lines 132-136 (None or one message)
None == <<>>
TestFailure(test, test_avg, acc) ==
    IF RLess(test_avg, ROne)
    THEN << [id |-> test.id, avg |-> test_avg, passes |-> acc.repeat_passes, repeats |-> acc.num_repeats,
             ex |-> IF acc.explanations # <<>> THEN acc.explanations[1] ELSE <<"No explanation">>] >>
    ELSE None

\* lines 95-101: no repeat file for the page of the test
MissingResult(test) ==
    [test_avg |-> RZero, test_failure |-> None, type |-> test.type,
     local_errors |-> << <<"missing_page", test.pdf, test.page>> >>,
     final_passed |-> FALSE, final_explanation |-> <<"Missing MD files">>,
     repeat_passes |-> 0, num_repeats |-> 0]

\* lines 103-137: the values process_test computes from the page's repeat files
RepeatsResult(test, page_md_files) ==
    LET acc == RepeatLoop(test, page_md_files,
                          [repeat_passes |-> 0, num_repeats |-> 0, explanations |-> <<>>, local_errors |-> <<>>])
        test_avg == TestAvg(acc.repeat_passes, acc.num_repeats)
    IN  [test_avg |-> test_avg, test_failure |-> TestFailure(test, test_avg, acc), type |-> test.type,
         local_errors |-> acc.local_errors,
         final_passed |-> FinalPassed(test_avg), final_explanation |-> FinalExplanation(acc.explanations),
         repeat_passes |-> acc.repeat_passes, num_repeats |-> acc.num_repeats]

ProcessTestResult(test, md_files) ==
    LET page_md_files == PageMdFiles(md_files, test)
    IN  IF page_md_files = <<>> THEN MissingResult(test) ELSE RepeatsResult(test, page_md_files)

\* ------------------------------------ evaluate_candidate, lines 53-77
CandidateName == candidate_folders[cand_idx]

RECURSIVE FilesOfPage(_, _, _, _)
FilesOfPage(pdf, page, contents, n) ==
    IF n > Len(contents) THEN <<>>
    ELSE <<MdFile(pdf, page, n, contents[n])>> \o FilesOfPage(pdf, page, contents, n + 1)

\* line 67: the files of the folder that match {md_base}_pg\d+_repeat\d+.md
RECURSIVE MdFilesFrom(_, _, _)
MdFilesFrom(folder, pdf, page) ==
    IF page > NumPages(pdf) THEN <<>>
    ELSE FilesOfPage(pdf, page, folder[<<pdf, page>>], 1) \o MdFilesFrom(folder, pdf, page + 1)

MdFiles(folder, pdf) == MdFilesFrom(folder, pdf, 1)

\* lines 64-74: the candidate errors of discovery, in the order of pdf_basenames
RECURSIVE DiscoveryErrors(_, _, _)
DiscoveryErrors(folder, pdfs, frc) ==
    IF pdfs = <<>> THEN <<>>
    ELSE (IF MdFiles(folder, Head(pdfs)) = <<>> /\ ~frc
          THEN << <<"missing_pdf", Head(pdfs)>> >> ELSE <<>>)
         \o DiscoveryErrors(folder, Tail(pdfs), frc)

\* lines 64-74: pdf_to_md_files holds the PDFs that took the else branch
DiscoveredPdfs(folder, pdfs, frc) ==
    {pdf \in Range(pdfs) : ~(MdFiles(folder, pdf) = <<>> /\ ~frc)}

NewFuture == [st |-> "none", need |-> FALSE, res |-> None]
NoFutures == [i \in DOMAIN all_tests |-> NewFuture]
EmptyReturn == [overall_score |-> RZero, total_tests |-> 0, candidate_errors |-> <<>>,
                test_failures |-> <<>>, test_type_breakdown |-> <<>>, all_test_scores |-> <<>>,
                test_results |-> <<>>]

\* test_results kept from the previous call
FrameResetKeepResults ==
    /\ candidate_errors' = <<>>
    /\ test_failures' = <<>>
    /\ test_type_breakdown' = <<>>
    /\ all_test_scores' = <<>>
    /\ test_results' = test_results
    /\ total_test_score' = RZero

\* the locals of evaluate_candidate as lines 53-57 and 139 set them
FrameReset ==
    /\ candidate_errors' = <<>>
    /\ test_failures' = <<>>
    /\ test_type_breakdown' = <<>>
    /\ all_test_scores' = <<>>
    /\ test_results' = <<>>
    /\ total_test_score' = RZero

\* main prints line 280 and calls evaluate_candidate; lines 53-77 and 139-143 run:
\* discovery, the short-circuit return, or the submission of every test.
Discover ==
    /\ main_pc = "loop"
    /\ cand_idx <= Len(candidate_folders)
    /\ LET folder == disk[CandidateName]
           errs == DiscoveryErrors(folder, pdf_basenames, force)
       IN  IF errs # <<>>
           THEN /\ pdf_to_md_files' = <<>>
                /\ ret' = [overall_score |-> RZero, total_tests |-> Len(all_tests),
                           candidate_errors |-> errs, test_failures |-> <<>>,
                           test_type_breakdown |-> <<>>, all_test_scores |-> <<>>,
                           test_results |-> <<>>]
                /\ main_pc' = "aggregate"
                /\ ev_pc' = "returned"
                /\ FrameReset
                /\ fut' = NoFutures
           ELSE /\ pdf_to_md_files' = [pdf \in DiscoveredPdfs(folder, pdf_basenames, force) |-> MdFiles(folder, pdf)]
                /\ fut' = [i \in DOMAIN all_tests |-> [NewFuture EXCEPT !.st = "queued"]]
                /\ main_pc' = "evaluating"
                /\ ev_pc' = "pool"
                /\ FrameReset
                /\ ret' = EmptyReturn
    /\ stdout' = Append(stdout, <<"Evaluating candidate", CandidateName>>)
    /\ UNCHANGED <<elsewhere, exit_code, all_failed_tests, inputs, cand_idx, summary,
                   test_results_by_candidate>>

\* ----------------------------------- process_test workers, lines 80-137
Running == {i \in DOMAIN fut : fut[i].st \in {"L87", "L88", "L89", "body"}}
Finished(i) == fut[i].st \in {"done", "raised", "collected"}

\* The pool hands the queued calls to its threads in submission order, at
\* most max_workers at a time.
CanStart(i) ==
    /\ ev_pc \in {"pool", "raising"}
    /\ fut[i].st = "queued"
    /\ \A j \in DOMAIN fut : j < i => fut[j].st # "queued"
    /\ Cardinality(Running) < max_workers

\* line 86: if pdf_name not in test_results
L86(i) ==
    /\ CanStart(i)
    /\ LET need == all_tests[i].pdf \notin DOMAIN test_results
       IN  fut' = [fut EXCEPT ![i].st = IF need THEN "L87" ELSE "L88", ![i].need = need]
    /\ UNCHANGED <<elsewhere, outputs, inputs, main_pc, cand_idx, summary, test_results_by_candidate, ev_pc,
                   candidate_errors, test_failures, test_type_breakdown, all_test_scores,
                   test_results, pdf_to_md_files, total_test_score, ret>>

\* line 87: test_results[pdf_name] = {}
L87(i) ==
    /\ fut[i].st = "L87"
    /\ test_results' = (all_tests[i].pdf :> <<>>) @@ test_results
    /\ fut' = [fut EXCEPT ![i].st = "L88"]
    /\ UNCHANGED <<elsewhere, outputs, inputs, main_pc, cand_idx, summary, test_results_by_candidate, ev_pc,
                   candidate_errors, test_failures, test_type_breakdown, all_test_scores,
                   pdf_to_md_files, total_test_score, ret>>

\* line 88: if test.page not in test_results[pdf_name]
L88(i) ==
    /\ fut[i].st = "L88"
    /\ LET need == all_tests[i].page \notin DOMAIN test_results[all_tests[i].pdf]
       IN  fut' = [fut EXCEPT ![i].st = IF need THEN "L89" ELSE "body", ![i].need = need]
    /\ UNCHANGED <<elsewhere, outputs, inputs, main_pc, cand_idx, summary, test_results_by_candidate, ev_pc,
                   candidate_errors, test_failures, test_type_breakdown, all_test_scores,
                   test_results, pdf_to_md_files, total_test_score, ret>>

\* line 89: test_results[pdf_name][test.page] = []
L89(i) ==
    /\ fut[i].st = "L89"
    /\ test_results' = [test_results EXCEPT ![all_tests[i].pdf] = (all_tests[i].page :> <<>>) @@ @]
    /\ fut' = [fut EXCEPT ![i].st = "body"]
    /\ UNCHANGED <<elsewhere, outputs, inputs, main_pc, cand_idx, summary, test_results_by_candidate, ev_pc,
                   candidate_errors, test_failures, test_type_breakdown, all_test_scores,
                   pdf_to_md_files, total_test_score, ret>>

\* line 92: pdf_to_md_files.get(pdf_name, [])
MdFilesOf(test) ==
    IF test.pdf \in DOMAIN pdf_to_md_files THEN pdf_to_md_files[test.pdf] ELSE <<>>

\* the tuple appended at line 100 or 130
ResultEntry(test, res) == [id |-> test.id, passed |-> res.final_passed, explanation |-> res.final_explanation]

\* lines 100 and 130: test_results[pdf_name][test.page].append(...), a
\* KeyError when another worker has replaced the dict of the PDF meanwhile
AppendResult(results, test, res) ==
    [results EXCEPT ![test.pdf][test.page] = Append(@, ResultEntry(test, res))]

\* lines 91-137: the rest of process_test. It reads the repeat files, which
\* no worker writes, and touches shared state once, at the append.
Body(i) ==
    /\ fut[i].st = "body"
    /\ LET test == all_tests[i]
           res == ProcessTestResult(test, MdFilesOf(test))
       IN  IF test.page \in DOMAIN test_results[test.pdf]
           THEN /\ test_results' = AppendResult(test_results, test, res)
                /\ fut' = [fut EXCEPT ![i].st = "done", ![i].res = <<res>>]
           ELSE /\ test_results' = test_results
                /\ fut' = [fut EXCEPT ![i].st = "raised"]
    /\ UNCHANGED <<elsewhere, outputs, inputs, main_pc, cand_idx, summary, test_results_by_candidate, ev_pc,
                   candidate_errors, test_failures, test_type_breakdown, all_test_scores,
                   pdf_to_md_files, total_test_score, ret>>

\* ---------------------------------- evaluate_candidate, lines 145-159
\* line 151-153
AddBreakdown(breakdown, type, test_avg) ==
    IF type \in DOMAIN breakdown
    THEN [breakdown EXCEPT ![type] = Append(@, test_avg)]
    ELSE (type :> <<test_avg>>) @@ breakdown

\* lines 145-156: one iteration of the as_completed loop, for a future that
\* returned
Collect(i) ==
    /\ ev_pc = "pool"
    /\ fut[i].st = "done"
    /\ LET res == fut[i].res[1]
       IN  /\ all_test_scores' = Append(all_test_scores, res.test_avg)
           /\ total_test_score' = RAdd(total_test_score, res.test_avg)
           /\ test_failures' = test_failures \o res.test_failure
           /\ test_type_breakdown' = AddBreakdown(test_type_breakdown, res.type, res.test_avg)
           /\ candidate_errors' = candidate_errors \o res.local_errors
    /\ fut' = [fut EXCEPT ![i].st = "collected", ![i].res = None]
    /\ UNCHANGED <<elsewhere, outputs, inputs, main_pc, cand_idx, summary, test_results_by_candidate, ev_pc,
                   test_results, pdf_to_md_files, ret>>

\* line 146: future.result() re-raises the exception of process_test
CollectRaised(i) ==
    /\ ev_pc = "pool"
    /\ fut[i].st = "raised"
    /\ ev_pc' = "raising"
    /\ UNCHANGED <<elsewhere, outputs, inputs, main_pc, cand_idx, summary, test_results_by_candidate,
                   candidate_errors, test_failures, test_type_breakdown, all_test_scores,
                   test_results, pdf_to_md_files, total_test_score, ret, fut>>

\* the loop left at the first future yielded
LoopDoneAtFirst == \E i \in DOMAIN fut : fut[i].st = "collected"

\* the as_completed loop is over when every future has been yielded
LoopDone == \A i \in DOMAIN fut : fut[i].st = "collected"

\* lines 158-159, after the with block of line 142 has joined the pool
Return ==
    /\ ev_pc = "pool"
    /\ LoopDone
    /\ ret' = [overall_score |-> IF Len(all_tests) > 0 THEN RDivInt(total_test_score, Len(all_tests)) ELSE RZero,
               total_tests |-> Len(all_tests), candidate_errors |-> candidate_errors,
               test_failures |-> test_failures, test_type_breakdown |-> test_type_breakdown,
               all_test_scores |-> all_test_scores, test_results |-> test_results]
    /\ ev_pc' = "returned"
    /\ main_pc' = "aggregate"
    /\ UNCHANGED <<elsewhere, outputs, inputs, cand_idx, summary, test_results_by_candidate,
                   candidate_errors, test_failures, test_type_breakdown, all_test_scores,
                   test_results, pdf_to_md_files, total_test_score, fut>>

\* The exception leaves the with block, whose exit waits for every worker
\* (shutdown(wait=True)), then leaves evaluate_candidate and main.
Unwind ==
    /\ ev_pc = "raising"
    /\ \A i \in DOMAIN fut : Finished(i)
    /\ ev_pc' = "raised"
    /\ main_pc' = "crashed"
    /\ UNCHANGED <<elsewhere, outputs, inputs, cand_idx, summary, test_results_by_candidate,
                   candidate_errors, test_failures, test_type_breakdown, all_test_scores,
                   test_results, pdf_to_md_files, total_test_score, ret, fut>>

\* ------------------------------------------------- main, lines 288-408
\* lines 306-314 (and 365-369): the verdict stored for the test in the
\* results of a candidate: None, or the passed flag of the first entry of
\* its page that carries its id
RECURSIVE FirstWithId(_, _)
FirstWithId(entries, id) ==
    IF entries = <<>> THEN None
    ELSE IF Head(entries).id = id THEN <<Head(entries).passed>>
    ELSE FirstWithId(Tail(entries), id)

LookupResult(results, errors, test) ==
    IF errors # <<>> THEN None
    ELSE IF test.pdf \notin DOMAIN results THEN None
    ELSE IF test.page \notin DOMAIN results[test.pdf] THEN None
    ELSE FirstWithId(results[test.pdf][test.page], test.id)

\* keys of jsonl_results in insertion order (lines 293-298)
RECURSIVE JsonlOrder(_, _)
JsonlOrder(tests, seen) ==
    IF tests = <<>> THEN <<>>
    ELSE LET f == test_to_jsonl[Head(tests).id]
         IN  IF f \in seen THEN JsonlOrder(Tail(tests), seen)
             ELSE <<f>> \o JsonlOrder(Tail(tests), seen \cup {f})

TestsOfFile(f) == SelectSeq(all_tests, LAMBDA t : test_to_jsonl[t.id] = f)

\* lines 310-311: the 0/1 scores of the tests of one file that have a result
RECURSIVE FileScores(_, _, _)
FileScores(tests, results, errors) ==
    IF tests = <<>> THEN <<>>
    ELSE LET r == LookupResult(results, errors, Head(tests))
         IN  (IF r = None THEN <<>> ELSE IF r[1] THEN <<1>> ELSE <<0>>)
             \o FileScores(Tail(tests), results, errors)

RECURSIVE SumInts(_)
SumInts(s) == IF s = <<>> THEN 0 ELSE Head(s) + SumInts(Tail(s))

\* jsonl_results[f] as lines 293-314 leave it
JsonlResult(f, results, errors) ==
    LET scores == FileScores(TestsOfFile(f), results, errors)
    IN  [total |-> Len(TestsOfFile(f)), passed |-> SumInts(scores), scores |-> scores]

\* lines 337-343 and 375-382: the mean of the per-file pass rates
RECURSIVE PassRates(_, _, _)
PassRates(files, results, errors) ==
    IF files = <<>> THEN <<>>
    ELSE LET r == JsonlResult(Head(files), results, errors)
         IN  (IF r.total > 0 THEN <<Rat(r.passed, r.total)>> ELSE <<>>)
             \o PassRates(Tail(files), results, errors)

MeanOfRates(rates) == IF rates # <<>> THEN RDivInt(RSum(rates), Len(rates)) ELSE RZero

NewOverallScore(results, errors) ==
    MeanOfRates(PassRates(JsonlOrder(all_tests, {}), results, errors))

\* lines 317-326: the arguments of calculate_bootstrap_ci, or no call
RECURSIVE BootstrapArgs(_, _, _)
BootstrapArgs(files, results, errors) ==
    IF files = <<>> THEN [scores |-> <<>>, splits |-> <<>>]
    ELSE LET r == JsonlResult(Head(files), results, errors)
             rest == BootstrapArgs(Tail(files), results, errors)
         IN  IF r.scores # <<>>
             THEN [scores |-> r.scores \o rest.scores, splits |-> <<Len(r.scores)>> \o rest.splits]
             ELSE rest

\* the sizes of the files passed as splits, whatever outcomes they have
ConfidenceIntervalOfTotals(results, errors) ==
    LET call == BootstrapArgs(JsonlOrder(all_tests, {}), results, errors)
        files == JsonlOrder(all_tests, {})
    IN  [bootstrap |-> call.scores # <<>>, scores |-> call.scores,
         splits |-> [k \in DOMAIN files |-> JsonlResult(files[k], results, errors).total]]

ConfidenceInterval(results, errors) ==
    LET call == BootstrapArgs(JsonlOrder(all_tests, {}), results, errors)
    IN  [bootstrap |-> call.scores # <<>>, scores |-> call.scores, splits |-> call.splits]

\* ------------------------------------------ main, what it prints
\* the place of a test type or of a JSONL file name in sorted() order
KeyRank(k) ==
    CASE k = "baseline" -> 1
      [] k = "f1" -> 2
      [] k = "f2" -> 3
      [] k = "present" -> 4
      [] OTHER -> 5

\* sorted(d.keys()), lines 398 and 404
RECURSIVE SortedKeys(_)
SortedKeys(keys) ==
    IF keys = {} THEN <<>>
    ELSE LET k == CHOOSE x \in keys : \A y \in keys : KeyRank(x) <= KeyRank(y)
         IN  <<k>> \o SortedKeys(keys \ {k})

\* a print per element of a list, in the order of the list
RECURSIVE PrintEach(_, _)
PrintEach(tag, items) ==
    IF items = <<>> THEN <<>> ELSE << <<tag, Head(items)>> >> \o PrintEach(tag, Tail(items))

\* lines 328-344: the lines printed for a candidate after its evaluation
CandidateLines(name, r, ci) ==
    << <<"Candidate", name>> >>
    \o (IF r.candidate_errors # <<>>
        THEN PrintEach("ERROR", r.candidate_errors)
        ELSE PrintEach("FAIL", r.test_failures)
             \o << <<"Average Score", NewOverallScore(r.test_results, r.candidate_errors), ci, r.total_tests>> >>)

\* line 398-401: one line per test type, in sorted order
RECURSIVE TypeLines(_, _)
TypeLines(types, breakdown) ==
    IF types = <<>> THEN <<>>
    ELSE LET scores == breakdown[Head(types)]
         IN  << <<"type", Head(types), RDivInt(RSum(scores), Len(scores)), Len(scores)>> >>
             \o TypeLines(Tail(types), breakdown)

\* lines 403-407: one line per JSONL file, in sorted order
RECURSIVE JsonlLines(_, _, _)
JsonlLines(files, results, errors) ==
    IF files = <<>> THEN <<>>
    ELSE LET r == JsonlResult(Head(files), results, errors)
         IN  << <<"jsonl", Head(files), r.passed, r.total>> >> \o JsonlLines(Tail(files), results, errors)

\* lines 387-408: the lines printed for one entry of the summary
SummaryLines(entry, results) ==
    << <<"Summary", entry.candidate_name,
         IF entry.candidate_errors # <<>> THEN <<"FAILED (errors)">>
         ELSE <<NewOverallScore(results, entry.candidate_errors), entry.ci>> >> >>
    \o TypeLines(SortedKeys(DOMAIN entry.test_type_breakdown), entry.test_type_breakdown)
    \o << <<"Results by JSONL file">> >>
    \o JsonlLines(SortedKeys(Range(JsonlOrder(all_tests, {}))), results, entry.candidate_errors)
    \o << <<"">> >>

\* lines 285-344: what main does with the tuple evaluate_candidate returned
Aggregate ==
    /\ main_pc = "aggregate"
    /\ test_results_by_candidate' = (CandidateName :> ret.test_results) @@ test_results_by_candidate
    /\ summary' = Append(summary,
                         [candidate_name |-> CandidateName, overall_score |-> ret.overall_score,
                          total_tests |-> ret.total_tests, candidate_errors |-> ret.candidate_errors,
                          test_failures |-> ret.test_failures,
                          test_type_breakdown |-> ret.test_type_breakdown,
                          ci |-> ConfidenceInterval(ret.test_results, ret.candidate_errors),
                          all_test_scores |-> ret.all_test_scores])
    /\ cand_idx' = cand_idx + 1
    /\ main_pc' = IF cand_idx < Len(candidate_folders) THEN "loop" ELSE "final"
    /\ stdout' = stdout \o CandidateLines(CandidateName, ret,
                                           ConfidenceInterval(ret.test_results, ret.candidate_errors))
    /\ UNCHANGED <<elsewhere, exit_code, all_failed_tests, inputs, ev_pc, candidate_errors, test_failures, test_type_breakdown,
                   all_test_scores, test_results, pdf_to_md_files, total_test_score, ret, fut>>

\* lines 348-385: the overall score of each candidate becomes the mean of
\* its per-JSONL pass rates
\* line 365: test_results_by_candidate.get(candidate_name, {})
ResultsOf(name) ==
    IF name \in DOMAIN test_results_by_candidate THEN test_results_by_candidate[name] ELSE <<>>

FinalEntry(entry) ==
    [entry EXCEPT !.overall_score = NewOverallScore(ResultsOf(entry.candidate_name), entry.candidate_errors)]

\* lines 346-408: everything the final summary prints
RECURSIVE FinalLines(_)
FinalLines(entries) ==
    IF entries = <<>> THEN <<>>
    ELSE SummaryLines(Head(entries), ResultsOf(Head(entries).candidate_name)) \o FinalLines(Tail(entries))

FinalSummary ==
    /\ main_pc = "final"
    /\ summary' = [k \in DOMAIN summary |-> FinalEntry(summary[k])]
    /\ main_pc' = "done"
    /\ stdout' = stdout \o << <<"====">>, <<"Final Summary with 95% Confidence Intervals:">> >>
                         \o FinalLines(summary)
    /\ UNCHANGED <<elsewhere, exit_code, all_failed_tests, inputs, cand_idx, test_results_by_candidate, ev_pc, candidate_errors,
                   test_failures, test_type_breakdown, all_test_scores, test_results,
                   pdf_to_md_files, total_test_score, ret, fut>>

\* ------------------------------------------------- main, lines 196-276
Candidates == {"c1", "c2"}
\* the order sort() gives the candidate folder names (line 272)
NameRank(c) == IF c = "c1" THEN 1 ELSE 2

\* line 272: candidate_folders.sort()
RECURSIVE Insert(_, _)
Insert(c, sorted) ==
    IF sorted = <<>> THEN <<c>>
    ELSE IF NameRank(c) <= NameRank(Head(sorted)) THEN <<c>> \o sorted
    ELSE <<Head(sorted)>> \o Insert(c, Tail(sorted))

RECURSIVE SortFolders(_)
SortFolders(listing) ==
    IF listing = <<>> THEN <<>> ELSE Insert(Head(listing), SortFolders(Tail(listing)))

\* os.listdir gives the folders in any order
Listings(cands) == {l \in [1..Cardinality(cands) -> cands] : Range(l) = cands}

\* line 226: the valid tests load_tests returns for a .jsonl file
LoadTests(jsonl_file) == jsonl_file.tests

\* lines 222-229: all_tests and test_to_jsonl after the loop over the files
RECURSIVE LoadAll(_)
LoadAll(jsonl_files) ==
    IF jsonl_files = <<>> THEN [tests |-> <<>>, jsonl |-> <<>>]
    ELSE LET rest == LoadAll(Tail(jsonl_files))
             tests == LoadTests(Head(jsonl_files))
         IN  [tests |-> tests \o rest.tests,
              jsonl |-> rest.jsonl @@ [id \in {tests[i].id : i \in DOMAIN tests} |-> Head(jsonl_files).name]]

\* line 231 taken as never true
NoValidTestsIgnored(tests) == FALSE

\* line 231: if not all_tests
NoValidTests(tests) == tests = <<>>

\* line 237: BaselineTest(id=f"{pdf}_baseline", pdf=pdf, page=1, type="baseline")
BaselineId(pdf) == IF pdf = "a" THEN "a_baseline" ELSE "b_baseline"
BaselineTest(pdf) == [id |-> BaselineId(pdf), pdf |-> pdf, page |-> 1, type |-> "baseline"]

\* lines 235-238: a baseline test for every PDF that has none
RECURSIVE AddBaselines(_, _)
AddBaselines(loaded, pdfs) ==
    IF pdfs = <<>> THEN loaded
    ELSE LET pdf == Head(pdfs)
             has == \E i \in DOMAIN loaded.tests :
                        loaded.tests[i].type = "baseline" /\ loaded.tests[i].pdf = pdf
         IN  AddBaselines(IF has THEN loaded
                          ELSE [tests |-> Append(loaded.tests, BaselineTest(pdf)),
                                jsonl |-> (BaselineId(pdf) :> "baseline") @@ loaded.jsonl],
                          Tail(pdfs))

\* lines 240-243: the pages of the PDFs for which no test is found, in the
\* order of the loops
RECURSIVE PagesWithoutEntry(_, _, _)
PagesWithoutEntry(tests, pdfs, page) ==
    IF pdfs = <<>> THEN <<>>
    ELSE IF page > NumPages(Head(pdfs)) THEN PagesWithoutEntry(tests, Tail(pdfs), 1)
    ELSE (IF \E i \in DOMAIN tests : tests[i].pdf = Head(pdfs) /\ tests[i].page = page
          THEN <<>> ELSE << <<Head(pdfs), page>> >>)
         \o PagesWithoutEntry(tests, pdfs, page + 1)

\* --skip_baseline taken as off
WithBaselineKept(tests) == tests

\* line 248
WithoutBaseline(tests) == SelectSeq(tests, LAMBDA t : t.type # "baseline")

\* line 256: random.sample(all_tests, n) is any n of the tests in any order
Samples(tests, n) ==
    {[k \in 1..n |-> tests[f[k]]] :
        f \in {g \in [1..n -> DOMAIN tests] : \A j, k \in 1..n : j # k => g[j] # g[k]}}

\* lines 258-266: the entries of the data directory taken as candidates
CandidateEntries ==
    IF args.candidate # None THEN DOMAIN disk \cap {args.candidate[1]} ELSE DOMAIN disk

\* sys.exit(code)
Exit(code) ==
    /\ main_pc' = "exited"
    /\ exit_code' = <<code>>

\* lines 196-233: main checks the pdfs folder, lists the PDFs and the
\* .jsonl files and loads the tests
CheckInputs ==
    /\ main_pc = "start"
    /\ LET loaded == LoadAll(input_folder.jsonl_files)
       IN  IF ~input_folder.has_pdfs \/ input_folder.pdf_files = <<>>
           THEN Exit(1) /\ UNCHANGED <<pdf_basenames, all_tests, test_to_jsonl>>
           ELSE IF input_folder.jsonl_files = <<>>
           THEN Exit(1) /\ pdf_basenames' = input_folder.pdf_files /\ UNCHANGED <<all_tests, test_to_jsonl>>
           ELSE IF NoValidTests(loaded.tests)
           THEN /\ Exit(1)
                /\ pdf_basenames' = input_folder.pdf_files
                /\ all_tests' = loaded.tests
                /\ test_to_jsonl' = loaded.jsonl
           ELSE /\ main_pc' = "loaded"
                /\ exit_code' = exit_code
                /\ pdf_basenames' = input_folder.pdf_files
                /\ all_tests' = loaded.tests
                /\ test_to_jsonl' = loaded.jsonl
    /\ UNCHANGED <<elsewhere, force, candidate_folders, disk, max_workers, args, input_folder,
                   cand_idx, summary, test_results_by_candidate, stdout, all_failed_tests,
                   ev_pc, candidate_errors, test_failures, test_type_breakdown, all_test_scores,
                   test_results, pdf_to_md_files, total_test_score, ret>>
    /\ fut' = [i \in DOMAIN all_tests' |-> NewFuture]

\* lines 235-276: the baseline tests, the check that every page has a
\* test, --skip_baseline, --sample and the list of the candidates
PrepareTests ==
    /\ main_pc = "loaded"
    /\ LET with_baseline == AddBaselines([tests |-> all_tests, jsonl |-> test_to_jsonl], pdf_basenames)
           no_entry == PagesWithoutEntry(with_baseline.tests, pdf_basenames, 1)
           kept == IF args.skip_baseline THEN WithoutBaseline(with_baseline.tests) ELSE with_baseline.tests
           sampling == args.sample > 0
       IN  /\ test_to_jsonl' = with_baseline.jsonl
           /\ IF no_entry # <<>> /\ ~force
              THEN /\ Exit(1)
                   /\ all_tests' = with_baseline.tests
                   /\ stdout' = Append(stdout, <<"No dataset entry found for pdf", no_entry[1]>>)
                   /\ UNCHANGED candidate_folders
              ELSE /\ \E sampled \in (IF sampling /\ args.sample < Len(kept)
                                        THEN Samples(kept, args.sample) ELSE {kept}) :
                          all_tests' = sampled
                   /\ \E listing \in Listings(CandidateEntries) :
                          candidate_folders' = SortFolders(listing)
                   /\ IF CandidateEntries = {}
                      THEN /\ Exit(1)
                           /\ stdout' = stdout \o (IF sampling THEN << <<"sample", args.sample, Len(kept)>> >> ELSE <<>>)
                      ELSE /\ main_pc' = "loop"
                           /\ exit_code' = exit_code
                           /\ stdout' = stdout \o (IF sampling THEN << <<"sample", args.sample, Len(kept)>> >> ELSE <<>>)
                                                \o << <<"Running tests for each candidate:">> >>
    /\ UNCHANGED <<elsewhere, pdf_basenames, force, disk, max_workers, args, input_folder,
                   cand_idx, summary, test_results_by_candidate, all_failed_tests,
                   ev_pc, candidate_errors, test_failures, test_type_breakdown, all_test_scores,
                   test_results, pdf_to_md_files, total_test_score, ret>>
    /\ fut' = [i \in DOMAIN all_tests' |-> NewFuture]

\* ------------------------------------------------- main, lines 410-453
\* line 418: the summary entries of the candidates without errors
ValidCandidates == SelectSeq(summary, LAMBDA c : c.candidate_errors = <<>>)

\* lines 425-438: the verdicts the valid candidates hold for the test
VerdictsFor(test) ==
    {LookupResult(ResultsOf(ValidCandidates[k].candidate_name), <<>>, test) : k \in DOMAIN ValidCandidates}

\* lines 420-443: has_results and not any_passed
FailedEverywhere(test) == <<FALSE>> \in VerdictsFor(test) /\ <<TRUE>> \notin VerdictsFor(test)

\* the failed tests marked as rejected before they are saved
AllFailedTestsMarked ==
    LET failed == SelectSeq(all_tests, FailedEverywhere)
    IN  [k \in DOMAIN failed |-> [failed[k] EXCEPT !.type = "rejected"]]

AllFailedTests == SelectSeq(all_tests, FailedEverywhere)

\* lines 410-453: with --output_failed the tests that failed for every
\* valid candidate go to save_tests (when there is one), then main returns
OutputFailed ==
    /\ main_pc = "done"
    /\ IF args.output_failed
       THEN /\ all_failed_tests' = AllFailedTests
            /\ stdout' = Append(stdout, IF AllFailedTests # <<>>
                                         THEN <<"Output tests that failed across all candidates", Len(AllFailedTests)>>
                                         ELSE <<"No tests failed across all candidates">>)
       ELSE UNCHANGED <<all_failed_tests, stdout>>
    /\ main_pc' = "end"
    /\ exit_code' = <<0>>
    /\ UNCHANGED <<elsewhere, inputs, cand_idx, summary, test_results_by_candidate, ev_pc,
                   candidate_errors, test_failures, test_type_breakdown, all_test_scores,
                   test_results, pdf_to_md_files, total_test_score, ret, fut>>

\* ---------------------------------------------------------- the system
Folder(a1, a2, b1) == (<<"a", 1>> :> a1) @@ (<<"a", 2>> :> a2) @@ (<<"b", 1>> :> b1)
Dataset(tests, files) == [tests |-> tests, jsonl |-> [id \in {tests[i].id : i \in DOMAIN tests} |->
                                                       files[CHOOSE i \in DOMAIN tests : tests[i].id = id]]]

\* =============================== src/bench/miners/mine_math.py, 114-193
\* character codes of the normalized texts
Alphabet == {97, 98}
Min3(a, b, c) == Min(a, Min(b, c))

\* lines 114-132: compute_dp, the table dp[i, j] for i in 0..m, j in 0..n
ComputeDp(cand, text) ==
    LET m == Len(cand)
        n == Len(text)
        cell[i \in 0..m, j \in 0..n] ==
            IF i = 0 THEN 0
            ELSE IF j = 0 THEN i
            ELSE Min3(cell[i - 1, j - 1] + (IF cand[i] = text[j] THEN 0 ELSE 1),
                      cell[i - 1, j] + 1,
                      cell[i, j - 1] + 1)
    IN  [ij \in (0..m) \X (0..n) |-> cell[ij[1], ij[2]]]

\* a column as good as the best one taken too
BetterOrEqual(distance, best_distance) == distance <= best_distance

\* line 140: if dp[m, j] < best_distance
Better(distance, best_distance) == distance < best_distance

\* lines 137-143: find_best_end, the loop over j with its two locals
RECURSIVE FindBestEndFrom(_, _, _, _, _, _)
FindBestEndFrom(table, m, n, j, best_distance, end) ==
    IF j > n THEN [best_end |-> end, best_distance |-> best_distance]
    ELSE IF Better(table[<<m, j>>], best_distance)
    THEN FindBestEndFrom(table, m, n, j + 1, table[<<m, j>>], j)
    ELSE FindBestEndFrom(table, m, n, j + 1, best_distance, end)

FindBestEnd(table, m, n) == FindBestEndFrom(table, m, n, 0, 2^30, 0)

\* what find_matching_content returns: None or a substring of the text
NoMatch == [found |-> FALSE, text |-> <<>>]
Match(text) == [found |-> TRUE, text |-> text]

\* dp[i, j] as numba reads it: a negative index counts from the end
DpAt(i, j) ==
    dp[<<IF i < 0 THEN i + Len(candidate_arr) + 1 ELSE i, IF j < 0 THEN j + Len(text_arr) + 1 ELSE j>>]

\* the diagonal move never taken
DiagonalNever(i, j) == FALSE

\* line 152: the test of the diagonal move
Diagonal(i, j) ==
    j > 0 /\ DpAt(i, j) = DpAt(i - 1, j - 1) + (IF candidate_arr[i] = text_arr[j] THEN 0 ELSE 1)

\* lines 169-175: find_matching_content returns None on an empty text
FindMatchingContent ==
    /\ math_pc = "start"
    /\ IF Len(candidate_arr) = 0 \/ Len(text_arr) = 0
       THEN math_pc' = "done" /\ matched' = NoMatch
       ELSE math_pc' = "dp" /\ matched' = matched
    /\ UNCHANGED <<benchVars, reviewVars, toolVars, candidate_arr, text_arr, sim_threshold, dp, best_end,
                   min_distance, bt_i, bt_j>>

\* line 185: dp = compute_dp(candidate_arr, text_arr)
CallComputeDp ==
    /\ math_pc = "dp"
    /\ dp' = ComputeDp(candidate_arr, text_arr)
    /\ math_pc' = "best"
    /\ UNCHANGED <<benchVars, reviewVars, toolVars, candidate_arr, text_arr, sim_threshold, best_end,
                   min_distance, bt_i, bt_j, matched>>

\* lines 186-192: find_best_end, the similarity test, and the entry of
\* backtrack (lines 148-149)
CallFindBestEnd ==
    /\ math_pc = "best"
    /\ LET m == Len(candidate_arr)
           best == FindBestEnd(dp, m, Len(text_arr))
       IN  /\ best_end' = best.best_end
           /\ min_distance' = best.best_distance
           /\ IF m > 0 /\ RLess(Rat(m - best.best_distance, m), sim_threshold)
              THEN /\ math_pc' = "done"
                   /\ matched' = NoMatch
                   /\ UNCHANGED <<bt_i, bt_j>>
              ELSE /\ math_pc' = "backtrack"
                   /\ bt_i' = m
                   /\ bt_j' = best.best_end
                   /\ matched' = matched
    /\ UNCHANGED <<benchVars, reviewVars, toolVars, candidate_arr, text_arr, sim_threshold, dp>>

\* lines 150-158: one iteration of the loop of backtrack
BacktrackStep ==
    /\ math_pc = "backtrack"
    /\ bt_i > 0
    /\ IF Diagonal(bt_i, bt_j)
       THEN bt_i' = bt_i - 1 /\ bt_j' = bt_j - 1
       ELSE IF DpAt(bt_i, bt_j) = DpAt(bt_i - 1, bt_j) + 1
       THEN bt_i' = bt_i - 1 /\ bt_j' = bt_j
       ELSE bt_i' = bt_i /\ bt_j' = bt_j - 1
    /\ UNCHANGED <<benchVars, reviewVars, toolVars, math_pc, candidate_arr, text_arr, sim_threshold, dp,
                   best_end, min_distance, matched>>

\* lines 159 and 193: backtrack returns j, find_matching_content the span
\* tex_norm[start_index:best_end] as Python slices it
Slice(text, start, end) ==
    LET n == Len(text)
        from == IF start < 0 THEN (IF start + n < 0 THEN 0 ELSE start + n) ELSE Min(start, n)
        to == IF end < 0 THEN (IF end + n < 0 THEN 0 ELSE end + n) ELSE Min(end, n)
    IN  IF from >= to THEN <<>> ELSE SubSeq(text, from + 1, to)

BacktrackReturn ==
    /\ math_pc = "backtrack"
    /\ bt_i <= 0
    /\ matched' = Match(Slice(text_arr, bt_j, best_end))
    /\ math_pc' = "done"
    /\ UNCHANGED <<benchVars, reviewVars, toolVars, candidate_arr, text_arr, sim_threshold, dp, best_end,
                   min_distance, bt_i, bt_j>>

\* ======================================= src/bench/review_app.py, 17-294
\* The PDFs and tests a dataset file can name, the values of "checked"
\* ("null" is JSON null) and the values a request can send.
ReviewPdfs == <<"a", "b">>
CheckedValues == {"null", "verified", "rejected"}
ReviewTest(id, pdf, checked) == [id |-> id, pdf |-> pdf, checked |-> checked]
RequestFields == {"checked", "pdf"}
RequestValues(field) == IF field = "checked" THEN CheckedValues ELSE {"a", "b"}

\* lines 26-35: find_next_unchecked_pdf
RECURSIVE FirstUnchecked(_)
FirstUnchecked(pdfs) ==
    IF pdfs = <<>> THEN None
    ELSE IF \E k \in DOMAIN PDF_TESTS[Head(pdfs)] : PDF_TESTS[Head(pdfs)][k].checked = "null"
    THEN <<Head(pdfs)>>
    ELSE FirstUnchecked(Tail(pdfs))

\* every PDF taken as checked
NoneUnchecked == None

find_next_unchecked_pdf == FirstUnchecked(ALL_PDFS)

\* ALL_PDFS.index(pdf), 0-based; CURRENT_PDF in ALL_PDFS
InAllPdfs(cur) == cur # None /\ \E k \in DOMAIN ALL_PDFS : ALL_PDFS[k] = cur[1]
IndexInAllPdfs(cur) == (CHOOSE k \in DOMAIN ALL_PDFS : ALL_PDFS[k] = cur[1]) - 1

\* lines 70-81: save_dataset writes the tests of every PDF, in the order of
\* the dict, and moves the file into place
RECURSIVE Flatten(_, _)
Flatten(pdfs, tests) ==
    IF pdfs = <<>> THEN <<>> ELSE tests[Head(pdfs)] \o Flatten(Tail(pdfs), tests)

save_dataset(tests) == Flatten(ALL_PDFS, tests)

\* line 294: app.run serves every request in a thread of its own; a thread
\* is idle, or inside save_dataset before or after writing its temp file
IdleThread == [pc |-> "idle", temp_file |-> <<>>]
Idle(th) == threads[th].pc = "idle"

\* --force taken as off
ForceFirstNever == FALSE

\* line 102: if FORCE and ALL_PDFS
ForceFirst == FORCE /\ ALL_PDFS # <<>>

\* lines 91-124: GET /
index ==
    /\ \E th \in DOMAIN threads : Idle(th)
    /\ LET found == IF CURRENT_PDF = None THEN find_next_unchecked_pdf ELSE CURRENT_PDF
       IN  IF found = None
           THEN IF ForceFirst
                THEN /\ CURRENT_PDF' = <<ALL_PDFS[1]>>
                     /\ rendered' = <<"review.html", ALL_PDFS[1], 0>>
                ELSE /\ CURRENT_PDF' = None
                     /\ rendered' = <<"all_done.html">>
           ELSE /\ CURRENT_PDF' = found
                /\ rendered' = <<"review.html", found[1], IF InAllPdfs(found) THEN IndexInAllPdfs(found) ELSE 0>>
    /\ UNCHANGED <<benchVars, mathVars, toolVars, FORCE, ALL_PDFS, PDF_TESTS, dataset_file, threads>>

\* lines 139-142: the first test of the PDF with the id gets the field
RECURSIVE UpdateFirst(_, _, _, _)
UpdateFirst(tests, test_id, field, value) ==
    IF tests = <<>> THEN <<>>
    ELSE IF Head(tests).id = test_id
    THEN <<[Head(tests) EXCEPT ![field] = value]>> \o Tail(tests)
    ELSE <<Head(tests)>> \o UpdateFirst(Tail(tests), test_id, field, value)

\* lines 127-142: POST /update_test, up to the call of save_dataset
update_test(th, pdf_name, test_id, field, value) ==
    /\ Idle(th)
    /\ PDF_TESTS' = IF pdf_name \in DOMAIN PDF_TESTS
                    THEN [PDF_TESTS EXCEPT ![pdf_name] = UpdateFirst(@, test_id, field, value)]
                    ELSE PDF_TESTS
    /\ threads' = [threads EXCEPT ![th].pc = "write"]
    /\ UNCHANGED <<benchVars, mathVars, toolVars, FORCE, ALL_PDFS, CURRENT_PDF, dataset_file, rendered>>

\* lines 150-168: POST /reject_all, up to the call of save_dataset
reject_all(th, pdf_name) ==
    /\ Idle(th)
    /\ IF pdf_name \in DOMAIN PDF_TESTS
       THEN /\ PDF_TESTS' = [PDF_TESTS EXCEPT ![pdf_name] =
                                [k \in DOMAIN @ |-> [@[k] EXCEPT !.checked = "rejected"]]]
            /\ threads' = [threads EXCEPT ![th].pc = "write"]
            /\ UNCHANGED rendered
       ELSE /\ UNCHANGED <<PDF_TESTS, threads>>
            /\ rendered' = <<"json", "error">>
    /\ UNCHANGED <<benchVars, mathVars, toolVars, FORCE, ALL_PDFS, CURRENT_PDF, dataset_file>>

\* lines 70-78: save_dataset writes the tests as they are now to a temp
\* file of its own
WriteTemp(th) ==
    /\ threads[th].pc = "write"
    /\ threads' = [threads EXCEPT ![th] = [pc |-> "move", temp_file |-> save_dataset(PDF_TESTS)]]
    /\ UNCHANGED <<benchVars, mathVars, toolVars, FORCE, ALL_PDFS, PDF_TESTS, CURRENT_PDF,
                   dataset_file, rendered>>

\* line 81 and lines 147, 166: the temp file replaces the dataset file and
\* the handler answers
MoveTemp(th) ==
    /\ threads[th].pc = "move"
    /\ dataset_file' = threads[th].temp_file
    /\ threads' = [threads EXCEPT ![th] = IdleThread]
    /\ rendered' = <<"json", "success">>
    /\ UNCHANGED <<benchVars, mathVars, toolVars, FORCE, ALL_PDFS, PDF_TESTS, CURRENT_PDF>>

\* lines 171-192: POST /next_pdf
next_pdf ==
    /\ \E th \in DOMAIN threads : Idle(th)
    /\ CURRENT_PDF' =
          IF InAllPdfs(CURRENT_PDF) /\ IndexInAllPdfs(CURRENT_PDF) < Len(ALL_PDFS) - 1
          THEN <<ALL_PDFS[IndexInAllPdfs(CURRENT_PDF) + 2]>>
          ELSE IF FORCE /\ ALL_PDFS # <<>> THEN <<ALL_PDFS[1]>>
          ELSE find_next_unchecked_pdf
    /\ rendered' = <<"redirect", "index">>
    /\ UNCHANGED <<benchVars, mathVars, toolVars, FORCE, ALL_PDFS, PDF_TESTS, dataset_file, threads>>

\* lines 195-205: POST /prev_pdf
prev_pdf ==
    /\ \E th \in DOMAIN threads : Idle(th)
    /\ CURRENT_PDF' =
          IF InAllPdfs(CURRENT_PDF) /\ IndexInAllPdfs(CURRENT_PDF) > 0
          THEN <<ALL_PDFS[IndexInAllPdfs(CURRENT_PDF)]>>
          ELSE CURRENT_PDF
    /\ rendered' = <<"redirect", "index">>
    /\ UNCHANGED <<benchVars, mathVars, toolVars, FORCE, ALL_PDFS, PDF_TESTS, dataset_file, threads>>

\* lines 208-216: POST /goto_pdf/<int:index>
goto_pdf(idx) ==
    /\ \E th \in DOMAIN threads : Idle(th)
    /\ CURRENT_PDF' = IF 0 <= idx /\ idx < Len(ALL_PDFS) THEN <<ALL_PDFS[idx + 1]>> ELSE CURRENT_PDF
    /\ rendered' = <<"redirect", "index">>
    /\ UNCHANGED <<benchVars, mathVars, toolVars, FORCE, ALL_PDFS, PDF_TESTS, dataset_file, threads>>

\* =============================== src/bench/miners/delete_rejected.py
\* A line of a dataset file: a test with its id, its PDF and its "checked"
\* value ("null" is JSON null or a missing key).
DrTest(id, pdf, checked) == [id |-> id, pdf |-> pdf, checked |-> checked]

\* The union of a sequence of sets
RECURSIVE UnionAll(_)
UnionAll(sets) == IF sets = <<>> THEN {} ELSE Head(sets) \cup UnionAll(Tail(sets))

\* lines 10-50 and 140-149: the ids marked as rejected in any dataset file
global_rejected_tests(dir) ==
    UnionAll([k \in DOMAIN dir.files |->
                {dir.files[k][i].id : i \in {j \in DOMAIN dir.files[k] : dir.files[k][j].checked = "rejected"}}])

\* lines 10-50 and 140-149: the ids of the tests of a PDF in any dataset file
global_pdf_tests(dir, pdf) ==
    UnionAll([k \in DOMAIN dir.files |->
                {dir.files[k][i].id : i \in {j \in DOMAIN dir.files[k] : dir.files[k][j].pdf = pdf}}])

\* the keys of global_pdf_tests
ReferencedPdfs(dir) ==
    UnionAll([k \in DOMAIN dir.files |-> {dir.files[k][i].pdf : i \in DOMAIN dir.files[k]}])

\* lines 88-101: find_orphaned_pdfs
find_orphaned_pdfs(dir) ==
    {pdf \in ReferencedPdfs(dir) :
        /\ global_pdf_tests(dir, pdf) \subseteq global_rejected_tests(dir)
        /\ pdf \in dir.pdfs}

\* lines 104-115: find_unreferenced_pdfs
find_unreferenced_pdfs(dir) == {pdf \in dir.pdfs : pdf \notin ReferencedPdfs(dir)}

\* lines 165-187: global_rejected_tests or orphaned_pdfs or unreferenced_pdfs
SomethingToDelete(dir) ==
    \/ global_rejected_tests(dir) # {}
    \/ find_orphaned_pdfs(dir) # {}
    \/ find_unreferenced_pdfs(dir) # {}

\* lines 53-85: update_dataset with dry_run=False keeps the lines whose id
\* is not rejected and replaces the file
update_dataset(file, rejected) == SelectSeq(file, LAMBDA test : test.id \notin rejected)

\* lines 124-187 and 215-216: main up to the call of input, or to its end
\* when it does not ask
DrMain ==
    /\ dr_pc = "start"
    /\ IF ~data_dir.has_pdfs
       THEN dr_pc' = "done" /\ dr_result' = <<"exit", 1>>
       ELSE IF data_dir.files = <<>>
       THEN dr_pc' = "done" /\ dr_result' = <<"exit", 0>>
       ELSE IF dry_run /\ SomethingToDelete(data_dir)
       THEN dr_pc' = "done" /\ dr_result' = <<"This is a dry run. No changes have been made.">>
       ELSE IF SomethingToDelete(data_dir)
       THEN dr_pc' = "input" /\ dr_result' = <<"Do you want to proceed with deletion? (y/N): ">>
       ELSE dr_pc' = "done" /\ dr_result' = <<"Nothing to delete.">>
    /\ UNCHANGED <<benchVars, mathVars, reviewVars, batchVars, convertVars, dry_run, data_dir, confirm>>

\* what standard input can give to input(): a line, or the end of the file
Answers == {"y", "Y", "yes", "n", "", "EOF"}
Lower(answer) == IF answer = "Y" THEN "y" ELSE answer

\* lines 188-214: the answer is read; the deletion runs only on y or yes
DrConfirm(answer) ==
    /\ dr_pc = "input"
    /\ confirm' = <<answer>>
    /\ dr_pc' = "done"
    /\ IF answer = "EOF"
       THEN /\ dr_result' = <<"EOFError">>
            /\ UNCHANGED data_dir
       ELSE IF Lower(answer) \notin {"y", "yes"}
       THEN /\ dr_result' = <<"Deletion cancelled.">>
            /\ UNCHANGED data_dir
       ELSE /\ data_dir' =
                 [data_dir EXCEPT
                    !.files = [k \in DOMAIN @ |-> update_dataset(@[k], global_rejected_tests(data_dir))],
                    !.pdfs = @ \ (find_orphaned_pdfs(data_dir) \cup find_unreferenced_pdfs(data_dir))]
            /\ dr_result' = <<"Deletion completed successfully.">>
    /\ UNCHANGED <<benchVars, mathVars, reviewVars, batchVars, convertVars, dry_run>>

\* delete_rejected.py is not running
DeleteOff ==
    /\ dr_pc = "off"
    /\ dry_run = TRUE
    /\ data_dir = [has_pdfs |-> FALSE, pdfs |-> {}, files |-> <<>>]
    /\ confirm = None
    /\ dr_result = None

\* ====================================== src/data/runopenaibatch.py
\* The .jsonl files of the folder, in the order of the state dict
BatchFiles == <<"f1", "f2", "f3">>
\* largest size of a file and largest --max_gb, both in GiB
MaxSize == 2
MaxGb == 2

\* line 67
OnlyCompleted == {"completed"}
FINISHED_STATES == {"completed", "errored_out"}

\* lines 98-107: the entry get_state makes for a file
NewEntry(size) == [batch_id |-> None, state |-> "init", size |-> size, last_checked |-> 1]

\* Sum of the sizes of a set of files
RECURSIVE SumSizes(_, _)
SumSizes(entries, files) ==
    IF files = {} THEN 0
    ELSE LET f == CHOOSE g \in files : TRUE
         IN  entries[f].size + SumSizes(entries, files \ {f})

\* lines 141-143: get_estimated_space_usage
get_estimated_space_usage == SumSizes(all_state, {f \in DOMAIN all_state : all_state[f].state = "processing"})

\* line 148: the entries that are not finished
Unfinished == {f \in DOMAIN all_state : all_state[f].state \notin FINISHED_STATES}

\* the place of the file in the state dict
DictPlace(f) == CHOOSE k \in DOMAIN BatchFiles : BatchFiles[k] = f

\* the first unfinished entry of the dict, whatever its last_checked
FirstUnfinished ==
    IF Unfinished = {} THEN None
    ELSE <<CHOOSE f \in Unfinished : \A g \in Unfinished : DictPlace(f) <= DictPlace(g)>>

\* lines 146-151: get_next_work_item, the unfinished entry with the oldest
\* last_checked (sort is stable: the first of the dict among equals)
get_next_work_item ==
    IF Unfinished = {} THEN None
    ELSE <<CHOOSE f \in Unfinished :
             \A g \in Unfinished \ {f} :
                 \/ all_state[f].last_checked < all_state[g].last_checked
                 \/ all_state[f].last_checked = all_state[g].last_checked /\ DictPlace(f) < DictPlace(g)>>

\* datetime.now(): later than every last_checked of the state file
Now == 1 + Cardinality(DOMAIN all_state) + Cardinality(DOMAIN all_state)

\* The times of the unfinished entries, kept in their order and counted
\* from 1; the finished entries keep the time of their last update.
Renumber(entries) ==
    LET open == {f \in DOMAIN entries : entries[f].state \notin FINISHED_STATES}
    IN  [f \in DOMAIN entries |->
           IF f \in open
           THEN [entries[f] EXCEPT !.last_checked =
                    1 + Cardinality({entries[g].last_checked : g \in {h \in open : entries[h].last_checked < entries[f].last_checked}})]
           ELSE entries[f]]

\* lines 115-134: update_state with state and batch_id as keyword arguments
update_state(filename, state, batch_id) ==
    Renumber([all_state EXCEPT ![filename] =
                [@ EXCEPT !.state = state, !.batch_id = batch_id, !.last_checked = Now]])

\* upload_and_start_batch taken as returning no id
NoBatchId(filename) == None

\* lines 21-37: upload_and_start_batch returns the id of the new batch
upload_and_start_batch(filename) == <<"batch", filename>>

\* line 184 and the bookkeeping of who was picked when
Pick(f) ==
    /\ work_item' = <<f>>
    /\ waited' = [g \in DOMAIN waited |-> IF g = f \/ g \notin Unfinished THEN 0 ELSE waited[g] + 1]
    /\ unfinished_then' = [unfinished_then EXCEPT ![f] = Cardinality(Unfinished)]

\* lines 168-178: process_folder checks the free space of the account
PfStart(enough_space) ==
    /\ pf_pc = "start"
    /\ pf_pc' = IF enough_space THEN "loop" ELSE "raised"
    /\ UNCHANGED <<benchVars, mathVars, reviewVars, deleteVars, convertVars, max_gb, all_state, work_item,
                   waited, unfinished_then>>

\* lines 180-195: an iteration on an init file with room: the upload works
PfUploaded ==
    /\ pf_pc = "loop"
    /\ get_next_work_item # None
    /\ LET f == get_next_work_item[1]
       IN  /\ all_state[f].state = "init"
           /\ get_estimated_space_usage < max_gb
           /\ Pick(f)
           /\ all_state' = update_state(f, "processing", upload_and_start_batch(f))
    /\ UNCHANGED <<benchVars, mathVars, reviewVars, deleteVars, convertVars, pf_pc, max_gb>>

\* lines 180-198: an iteration on an init file with room: the upload raises
PfUploadFailed ==
    /\ pf_pc = "loop"
    /\ get_next_work_item # None
    /\ LET f == get_next_work_item[1]
       IN  /\ all_state[f].state = "init"
           /\ get_estimated_space_usage < max_gb
           /\ Pick(f)
           /\ all_state' = update_state(f, "init", all_state[f].batch_id)
    /\ UNCHANGED <<benchVars, mathVars, reviewVars, deleteVars, convertVars, pf_pc, max_gb>>

\* lines 180-202: an iteration on an init file without room
PfWaiting ==
    /\ pf_pc = "loop"
    /\ get_next_work_item # None
    /\ LET f == get_next_work_item[1]
       IN  /\ all_state[f].state = "init"
           /\ ~(get_estimated_space_usage < max_gb)
           /\ Pick(f)
           /\ all_state' = update_state(f, all_state[f].state, all_state[f].batch_id)
    /\ UNCHANGED <<benchVars, mathVars, reviewVars, deleteVars, convertVars, pf_pc, max_gb>>

\* the statuses of a batch that end it, and the others
TerminalStatuses == {"completed", "failed", "expired", "cancelled"}
RunningStatuses == {"validating", "in_progress", "finalizing"}

\* lines 203-231: an iteration on a processing file whose batch has ended;
\* downloaded is what download_batch_result returns as success
PfBatchEnded(status, downloaded) ==
    /\ pf_pc = "loop"
    /\ get_next_work_item # None
    /\ LET f == get_next_work_item[1]
       IN  /\ all_state[f].state = "processing"
           /\ Pick(f)
           /\ all_state' = update_state(f, IF status = "completed" /\ downloaded
                                             THEN "completed" ELSE "errored_out",
                                         all_state[f].batch_id)
    /\ UNCHANGED <<benchVars, mathVars, reviewVars, deleteVars, convertVars, pf_pc, max_gb>>

\* lines 203-204 and 232-234: an iteration on a processing file whose
\* batch is still running
PfBatchRunning(status) ==
    /\ pf_pc = "loop"
    /\ get_next_work_item # None
    /\ LET f == get_next_work_item[1]
       IN  /\ all_state[f].state = "processing"
           /\ Pick(f)
           /\ all_state' = update_state(f, all_state[f].state, all_state[f].batch_id)
    /\ UNCHANGED <<benchVars, mathVars, reviewVars, deleteVars, convertVars, pf_pc, max_gb>>

\* lines 180 and 238: every file is finished
PfDone ==
    /\ pf_pc = "loop"
    /\ \A f \in DOMAIN all_state : all_state[f].state \in FINISHED_STATES
    /\ pf_pc' = "done"
    /\ UNCHANGED <<benchVars, mathVars, reviewVars, deleteVars, convertVars, max_gb, all_state, work_item,
                   waited, unfinished_then>>

\* runopenaibatch.py is not running
BatchOff ==
    /\ pf_pc = "off"
    /\ max_gb = 0
    /\ all_state = <<>>
    /\ work_item = None
    /\ waited = <<>>
    /\ unfinished_then = <<>>

\* ============================================ src/bench/convert.py
\* most tasks prepared for a candidate and largest --parallel
MaxTasks == 3
MaxParallel == 2

\* the semaphore taken as two slots wider
TwoMore(n) == IF n = None THEN 2 ELSE n[1] + 2

\* line 171: max_parallel or 1
OrOne(n) == IF n = None \/ n = <<0>> THEN 1 ELSE n[1]

\* lines 166-178: a prepared task: the process_pdf coroutine wrapped by
\* process_with_semaphore; awaited counts the times the coroutine is awaited
NewTask == [state |-> "prepared", awaited |-> 0, result |-> FALSE]

\* lines 171-184: the semaphore is made and as_completed schedules the
\* wrapped tasks; without a task nothing is run or printed
CvSchedule ==
    /\ cv_pc = "prepared"
    /\ semaphore' = OrOne(max_parallel)
    /\ IF tasks = <<>>
       THEN cv_pc' = "done" /\ UNCHANGED tasks
       ELSE cv_pc' = "running" /\ tasks' = [t \in DOMAIN tasks |-> [tasks[t] EXCEPT !.state = "scheduled"]]
    /\ UNCHANGED <<benchVars, mathVars, reviewVars, deleteVars, batchVars, max_parallel,
                   completed, pbar, printed>>

\* lines 174-175: a wrapped task takes a slot of the semaphore and awaits
\* its process_pdf coroutine
CvAcquire(t) ==
    /\ cv_pc = "running"
    /\ tasks[t].state = "scheduled"
    /\ semaphore > 0
    /\ semaphore' = semaphore - 1
    /\ tasks' = [tasks EXCEPT ![t].state = "converting", ![t].awaited = @ + 1]
    /\ UNCHANGED <<benchVars, mathVars, reviewVars, deleteVars, batchVars, cv_pc, max_parallel,
                   completed, pbar, printed>>

\* lines 57-84 and 174-175: process_pdf returns True or False (it catches
\* the exceptions of the method) and the slot is given back
CvReturn(t, result) ==
    /\ cv_pc = "running"
    /\ tasks[t].state = "converting"
    /\ semaphore' = semaphore + 1
    /\ tasks' = [tasks EXCEPT ![t].state = "returned", ![t].result = result]
    /\ UNCHANGED <<benchVars, mathVars, reviewVars, deleteVars, batchVars, cv_pc, max_parallel,
                   completed, pbar, printed>>

\* lines 184-192: the loop over as_completed gets the result of a task
CvCollect(t) ==
    /\ cv_pc = "running"
    /\ tasks[t].state = "returned"
    /\ tasks' = [tasks EXCEPT ![t].state = "collected"]
    /\ completed' = IF tasks[t].result THEN completed + 1 ELSE completed
    /\ pbar' = pbar + 1
    /\ UNCHANGED <<benchVars, mathVars, reviewVars, deleteVars, batchVars, cv_pc, max_parallel,
                   semaphore, printed>>

\* line 194: the loop over as_completed has ended
CvPrint ==
    /\ cv_pc = "running"
    /\ \A t \in DOMAIN tasks : tasks[t].state = "collected"
    /\ printed' = <<"Completed", completed, "out of", Len(tasks)>>
    /\ cv_pc' = "done"
    /\ UNCHANGED <<benchVars, mathVars, reviewVars, deleteVars, batchVars, max_parallel, tasks,
                   semaphore, completed, pbar>>

\* convert.py is not running
ConvertOff ==
    /\ cv_pc = "off"
    /\ max_parallel = None
    /\ tasks = <<>>
    /\ semaphore = 0
    /\ completed = 0
    /\ pbar = 0
    /\ printed = None

ToolsOff == DeleteOff /\ BatchOff /\ ConvertOff

\* the other programs are not running
MathOff ==
    /\ math_pc = "off"
    /\ candidate_arr = <<>>
    /\ text_arr = <<>>
    /\ sim_threshold = RZero
    /\ dp = <<>>
    /\ best_end = 0
    /\ min_distance = 0
    /\ bt_i = 0
    /\ bt_j = 0
    /\ matched = NoMatch

ReviewOff ==
    /\ FORCE = FALSE
    /\ ALL_PDFS = <<>>
    /\ PDF_TESTS = <<>>
    /\ CURRENT_PDF = None
    /\ dataset_file = <<>>
    /\ threads = <<>>
    /\ rendered = <<"off">>

\* lines 274-275 and the locals of evaluate_candidate before its first call
NothingEvaluated ==
    /\ cand_idx = 1
    /\ summary = <<>>
    /\ test_results_by_candidate = <<>>
    /\ exit_code = None
    /\ all_failed_tests = <<>>
    /\ MathOff
    /\ ReviewOff
    /\ ToolsOff
    /\ ev_pc = "idle"
    /\ candidate_errors = <<>>
    /\ test_failures = <<>>
    /\ test_type_breakdown = <<>>
    /\ all_test_scores = <<>>
    /\ test_results = <<>>
    /\ pdf_to_md_files = <<>>
    /\ total_test_score = RZero
    /\ ret = EmptyReturn
    /\ fut = NoFutures

\* main up to line 276 has loaded the tests of the data directory, run with
\* --skip_baseline, and listed the candidates; nothing has been evaluated.
Setup(datasets, folders, cands) ==
    /\ \E d \in datasets : all_tests = d.tests /\ test_to_jsonl = d.jsonl
    /\ pdf_basenames = <<"a", "b">>
    /\ input_folder = [has_pdfs |-> TRUE, pdf_files |-> pdf_basenames,
                       jsonl_files |-> [k \in DOMAIN JsonlOrder(all_tests, {}) |->
                                          [name |-> JsonlOrder(all_tests, {})[k],
                                           tests |-> TestsOfFile(JsonlOrder(all_tests, {})[k])]]]
    /\ force \in BOOLEAN
    /\ force \/ PagesWithoutEntry(AddBaselines([tests |-> all_tests, jsonl |-> test_to_jsonl],
                                                pdf_basenames).tests, pdf_basenames, 1) = <<>>
    /\ \E l \in Listings(cands) : candidate_folders = SortFolders(l)
    /\ disk \in [cands -> folders]
    /\ max_workers = Min(MaxWorkers, PoolCap)
    /\ args = [skip_baseline |-> TRUE, sample |-> 0, candidate |-> None, output_failed |-> TRUE]
    /\ main_pc = "loop"
    /\ NothingEvaluated
    /\ stdout = << <<"Running tests for each candidate:">> >>

\* One candidate, two tests on PDF "a" (on one page or on two), any repeat
\* files for page 1.
DatasetsEval ==
    {Dataset(<<Test("t1", "a", 1, "x"), Test("t2", "a", p, x)>>, <<"f1", "f2">>) : p \in 1..2, x \in Texts}
FoldersEval ==
    {Folder(a1, a2, <<"x">>) : a1 \in SeqsUpTo(Contents, MaxRepeats), a2 \in SeqsUpTo({"x"}, 1)}

Init == Setup(DatasetsEval, FoldersEval, {"c1"})

\* One candidate, three tests from two JSONL files of unequal size, at most
\* two repeat files for page 1 of "a" and one for the other pages.
DatasetsFiles ==
    {Dataset(<<Test("t1", "a", 1, "x"), Test("t2", "a", 2, "x"), Test("t3", "b", 1, "x")>>, files) :
        files \in {<<"f1", "f1", "f2">>, <<"f1", "f2", "f2">>, <<"f1", "f1", "f1">>}}
FoldersFiles ==
    {Folder(a1, a2, b1) : a1 \in SeqsUpTo(Texts, 2), a2 \in SeqsUpTo(Texts, 1), b1 \in SeqsUpTo(Texts, 1)}

InitFiles == Setup(DatasetsFiles, FoldersFiles, {"c1"})

\* Two candidates, two tests, at most one repeat file per page.
DatasetsMain ==
    {Dataset(<<Test("t1", "a", 1, "x"), Test("t2", "a", 2, "x")>>, <<"f1", "f2">>)}
FoldersMain ==
    {Folder(a1, a2, <<"x">>) : a1 \in SeqsUpTo(Texts, 1), a2 \in SeqsUpTo({"x"}, 1)}

InitMain == Setup(DatasetsMain, FoldersMain, Candidates)

Next ==
    \/ Discover
    \/ \E i \in DOMAIN all_tests : L86(i)
    \/ \E i \in DOMAIN all_tests : L87(i)
    \/ \E i \in DOMAIN all_tests : L88(i)
    \/ \E i \in DOMAIN all_tests : L89(i)
    \/ \E i \in DOMAIN all_tests : Body(i)
    \/ \E i \in DOMAIN all_tests : Collect(i)
    \/ \E i \in DOMAIN all_tests : CollectRaised(i)
    \/ Return
    \/ Unwind
    \/ Aggregate
    \/ FinalSummary
    \/ OutputFailed

\* main from its first line, on data directories that lack the pdfs folder,
\* the PDFs, the .jsonl files or the tests, or that hold two tests
\* (in the last one a baseline test).
DatasetsLoad ==
    {[has_pdfs |-> FALSE, pdf_files |-> <<>>, jsonl_files |-> <<>>],
     [has_pdfs |-> TRUE, pdf_files |-> <<>>, jsonl_files |-> <<>>],
     [has_pdfs |-> TRUE, pdf_files |-> <<"a", "b">>, jsonl_files |-> <<>>],
     [has_pdfs |-> TRUE, pdf_files |-> <<"a", "b">>, jsonl_files |-> << [name |-> "f1", tests |-> <<>>] >>],
     [has_pdfs |-> TRUE, pdf_files |-> <<"a", "b">>,
      jsonl_files |-> << [name |-> "f1", tests |-> <<Test("t1", "a", 1, "x"), Test("t2", "a", 2, "x")>>] >>],
     [has_pdfs |-> TRUE, pdf_files |-> <<"a", "b">>,
      jsonl_files |-> << [name |-> "f1", tests |-> <<Test("t1", "a", 1, "x")>>],
                         [name |-> "f2", tests |-> <<Test("t2", "a", 1, "y")>>] >>],
     [has_pdfs |-> TRUE, pdf_files |-> <<"a", "b">>,
      jsonl_files |-> << [name |-> "f1", tests |-> <<Test("t1", "a", 1, "x"),
                                                     [id |-> "t2", pdf |-> "a", page |-> 2, type |-> "baseline"]>>] >>]}
FoldersLoad ==
    {Folder(<<"x">>, a2, b1) : a2 \in SeqsUpTo({"x"}, 1), b1 \in SeqsUpTo({"x"}, 1)}

InitLoad ==
    /\ input_folder \in DatasetsLoad
    /\ all_tests = <<>>
    /\ test_to_jsonl = <<>>
    /\ pdf_basenames = <<>>
    /\ force \in BOOLEAN
    /\ candidate_folders = <<>>
    /\ disk \in [{"c1"} -> FoldersLoad]
    /\ max_workers = Min(MaxWorkers, PoolCap)
    /\ args \in [skip_baseline : BOOLEAN, sample : 0..MaxSample, candidate : {None, <<"c2">>},
                  output_failed : BOOLEAN]
    /\ main_pc = "start"
    /\ NothingEvaluated
    /\ stdout = <<>>

NextLoad == CheckInputs \/ PrepareTests \/ Next

\* benchmark.py is not running
BenchOff ==
    /\ all_tests = <<>>
    /\ test_to_jsonl = <<>>
    /\ pdf_basenames = <<>>
    /\ force = FALSE
    /\ candidate_folders = <<>>
    /\ disk = <<>>
    /\ max_workers = Min(MaxWorkers, PoolCap)
    /\ args = [skip_baseline |-> FALSE, sample |-> 0, candidate |-> None, output_failed |-> FALSE]
    /\ input_folder = [has_pdfs |-> FALSE, pdf_files |-> <<>>, jsonl_files |-> <<>>]
    /\ main_pc = "off"
    /\ stdout = <<>>
    /\ cand_idx = 1
    /\ summary = <<>>
    /\ test_results_by_candidate = <<>>
    /\ exit_code = None
    /\ all_failed_tests = <<>>
    /\ ev_pc = "idle"
    /\ candidate_errors = <<>>
    /\ test_failures = <<>>
    /\ test_type_breakdown = <<>>
    /\ all_test_scores = <<>>
    /\ test_results = <<>>
    /\ pdf_to_md_files = <<>>
    /\ total_test_score = RZero
    /\ ret = EmptyReturn
    /\ fut = <<>>

\* find_matching_content called on any two normalized texts and a
\* threshold, or compute_dp, find_best_end and backtrack called in turn
\* on any two arrays.
Thresholds == {RZero, RHalf, ROne}
InitMath ==
    /\ BenchOff
    /\ ReviewOff
    /\ ToolsOff
    /\ candidate_arr \in SeqsUpTo(Alphabet, MaxPattern)
    /\ text_arr \in SeqsUpTo(Alphabet, MaxText)
    /\ \/ math_pc = "start" /\ sim_threshold \in Thresholds
       \/ math_pc = "dp" /\ sim_threshold = RZero
    /\ dp = <<>>
    /\ best_end = 0
    /\ min_distance = 0
    /\ bt_i = 0
    /\ bt_j = 0
    /\ matched = NoMatch

NextMath ==
    \/ FindMatchingContent
    \/ CallComputeDp
    \/ CallFindBestEnd
    \/ BacktrackStep
    \/ BacktrackReturn

\* lines 219-242: load_dataset groups the tests of the file by their PDF
TestsOfPdf(file, pdf) == SelectSeq(file, LAMBDA t : t.pdf = pdf)
PdfsOfFile(file) == SelectSeq(ReviewPdfs, LAMBDA pdf : TestsOfPdf(file, pdf) # <<>>)

\* Dataset files: no test, one PDF with one test, or PDF "a" with two
\* tests and PDF "b" with one, with any "checked" values.
DatasetFiles ==
    {<<>>}
    \cup {<<ReviewTest("r1", "a", c1)>> : c1 \in CheckedValues}
    \cup {<<ReviewTest("r1", "a", c1), ReviewTest("r2", "a", c2), ReviewTest("r3", "b", c3)>> :
              c1 \in CheckedValues, c2 \in CheckedValues, c3 \in CheckedValues}

\* lines 251-294: main has loaded the dataset and started the server
InitReview ==
    /\ BenchOff
    /\ MathOff
    /\ ToolsOff
    /\ FORCE \in BOOLEAN
    /\ dataset_file \in DatasetFiles
    /\ ALL_PDFS = PdfsOfFile(dataset_file)
    /\ PDF_TESTS = [pdf \in Range(ALL_PDFS) |-> TestsOfPdf(dataset_file, pdf)]
    /\ CURRENT_PDF = find_next_unchecked_pdf
    /\ threads = [th \in {1} |-> IdleThread]
    /\ rendered = <<"none">>

\* the requests come one after the other
NextReview ==
    \/ index
    \/ \E th \in DOMAIN threads, pdf_name \in {"a", "b", "zz"}, test_id \in {"r1", "r2", "r3"},
          field \in RequestFields :
           \E value \in RequestValues(field) : update_test(th, pdf_name, test_id, field, value)
    \/ \E th \in DOMAIN threads, pdf_name \in {"a", "b", "zz"} : reject_all(th, pdf_name)
    \/ \E th \in DOMAIN threads : WriteTemp(th)
    \/ \E th \in DOMAIN threads : MoveTemp(th)
    \/ next_pdf
    \/ prev_pdf
    \/ \E idx \in -1..Len(ReviewPdfs) : goto_pdf(idx)

\* the most requests the server handles at the same time
MaxRequests == 2

\* The server with a dataset of one PDF and two unchecked tests, handling
\* update_test and reject_all requests at the same time.
InitReviewThreads ==
    /\ BenchOff
    /\ MathOff
    /\ ToolsOff
    /\ FORCE \in BOOLEAN
    /\ dataset_file = <<ReviewTest("r1", "a", "null"), ReviewTest("r2", "a", "null")>>
    /\ ALL_PDFS = PdfsOfFile(dataset_file)
    /\ PDF_TESTS = [pdf \in Range(ALL_PDFS) |-> TestsOfPdf(dataset_file, pdf)]
    /\ CURRENT_PDF = find_next_unchecked_pdf
    /\ threads = [th \in 1..MaxRequests |-> IdleThread]
    /\ rendered = <<"none">>

NextReviewThreads ==
    \/ \E th \in DOMAIN threads, test_id \in {"r1", "r2"}, value \in {"verified", "rejected"} :
           update_test(th, "a", test_id, "checked", value)
    \/ \E th \in DOMAIN threads, pdf_name \in {"a", "zz"} : reject_all(th, pdf_name)
    \/ \E th \in DOMAIN threads : WriteTemp(th)
    \/ \E th \in DOMAIN threads : MoveTemp(th)

\* Data directories of delete_rejected: with or without pdfs/, any of the
\* PDFs a, b and u in it, and up to two dataset files: tests t1 and t2 on
\* PDF a, test t3 on PDF b, each rejected or not.
DrChecked == {"null", "rejected"}
DrFirstFiles ==
    {<<>>}
    \cup {<<DrTest("t1", "a", c1)>> : c1 \in DrChecked}
    \cup {<<DrTest("t1", "a", c1), DrTest("t2", "a", c2)>> : c1 \in DrChecked, c2 \in DrChecked}
DrSecondFiles == {<<>>} \cup {<<DrTest("t3", "b", c3)>> : c3 \in DrChecked}
DrDirs ==
    {[has_pdfs |-> FALSE, pdfs |-> {}, files |-> <<f1>>] : f1 \in DrFirstFiles}
    \cup {[has_pdfs |-> TRUE, pdfs |-> pdfs, files |-> files] :
             pdfs \in SUBSET {"a", "b", "u"},
             files \in {<<>>} \cup {<<f1>> : f1 \in DrFirstFiles}
                       \cup {<<f1, f2>> : f1 \in DrFirstFiles, f2 \in DrSecondFiles}}

\* lines 118-125: main of delete_rejected is called
InitDelete ==
    /\ BenchOff
    /\ MathOff
    /\ ReviewOff
    /\ BatchOff
    /\ ConvertOff
    /\ dr_pc = "start"
    /\ dry_run \in BOOLEAN
    /\ data_dir \in DrDirs
    /\ confirm = None
    /\ dr_result = None

NextDelete == DrMain \/ \E answer \in Answers : DrConfirm(answer)

\* lines 241-258: process_folder is called on a folder of three .jsonl
\* files without a state file, with a --max_gb of at least 1
InitBatch ==
    /\ BenchOff
    /\ MathOff
    /\ ReviewOff
    /\ DeleteOff
    /\ ConvertOff
    /\ pf_pc = "start"
    /\ max_gb \in 1..MaxGb
    /\ \E sizes \in [Range(BatchFiles) -> 1..MaxSize] :
          all_state = [f \in Range(BatchFiles) |-> NewEntry(sizes[f])]
    /\ work_item = None
    /\ waited = [f \in Range(BatchFiles) |-> 0]
    /\ unfinished_then = [f \in Range(BatchFiles) |-> Len(BatchFiles)]

\* an iteration that ends a batch
PfTerminal == \E status \in TerminalStatuses, downloaded \in BOOLEAN : PfBatchEnded(status, downloaded)

NextBatch ==
    \/ \E enough_space \in BOOLEAN : PfStart(enough_space)
    \/ PfUploaded
    \/ PfUploadFailed
    \/ PfWaiting
    \/ PfTerminal
    \/ \E status \in RunningStatuses : PfBatchRunning(status)
    \/ PfDone

\* lines 92-168: process_pdfs has prepared the tasks of a candidate; --parallel
\* is absent (None) or a number
InitConvert ==
    /\ BenchOff
    /\ MathOff
    /\ ReviewOff
    /\ DeleteOff
    /\ BatchOff
    /\ cv_pc = "prepared"
    /\ max_parallel \in {None} \cup {<<n>> : n \in 0..MaxParallel}
    /\ \E n \in 0..MaxTasks : tasks = [t \in 1..n |-> NewTask]
    /\ semaphore = 0
    /\ completed = 0
    /\ pbar = 0
    /\ printed = None

NextConvert ==
    \/ CvSchedule
    \/ \E t \in DOMAIN tasks : CvAcquire(t)
    \/ \E t \in DOMAIN tasks, result \in BOOLEAN : CvReturn(t, result)
    \/ \E t \in DOMAIN tasks : CvCollect(t)
    \/ CvPrint

Spec == Init /\ [][Next]_vars
\* the event loop runs what is ready and every conversion returns
SpecConvert == InitConvert /\ [][NextConvert]_vars /\ WF_vars(NextConvert)
SpecBatch == InitBatch /\ [][NextBatch]_vars
\* process_folder keeps running, every upload succeeds in the end and every
\* batch reaches a terminal status in the end
SpecBatchFair ==
    InitBatch /\ [][NextBatch]_vars /\ WF_vars(NextBatch) /\ SF_vars(PfUploaded) /\ SF_vars(PfTerminal)
SpecDelete == InitDelete /\ [][NextDelete]_vars
SpecReview == InitReview /\ [][NextReview]_vars
SpecReviewThreads == InitReviewThreads /\ [][NextReviewThreads]_vars
SpecMath == InitMath /\ [][NextMath]_vars /\ WF_vars(NextMath)
SpecLoad == InitLoad /\ [][NextLoad]_vars
SpecFiles == InitFiles /\ [][Next]_vars
SpecMain == InitMain /\ [][Next]_vars

\* ================================================================ claims
\* What the folder of the candidate under evaluation holds for the page of
\* a test, and how many of those repeats the matching function passes.
EvaluatedCandidate == candidate_folders[Min(cand_idx, Len(candidate_folders))]
PageContents(c, test) == disk[c][<<test.pdf, test.page>>]
NumRepeatFiles(c, test) == Len(PageContents(c, test))
RepeatPasses(test, content) ==
    content # "unreadable" /\ ~RunTest(test, content).raised /\ RunTest(test, content).passed
NumPassing(c, test) ==
    Cardinality({n \in DOMAIN PageContents(c, test) : RepeatPasses(test, PageContents(c, test)[n])})
TrueRatio(c, test) ==
    IF NumRepeatFiles(c, test) > 0 THEN Rat(NumPassing(c, test), NumRepeatFiles(c, test)) ELSE RZero
Count(s, v) == Cardinality({k \in DOMAIN s : s[k] = v})
PoolRan == \A i \in DOMAIN fut : fut[i].st # "none"
AllEntries(results) ==
    UNION {Range(results[pp[1]][pp[2]]) :
              pp \in {qq \in PageKeys : qq[1] \in DOMAIN results /\ qq[2] \in DOMAIN results[qq[1]]}}
TestWithId(id) == all_tests[CHOOSE i \in DOMAIN all_tests : all_tests[i].id = id]

\* C1: for every assertion whose page has R >= 1 repeat files of which P
\* pass, process_test computes the pass ratio P/R and the verdict passed
\* iff 2*P > R; the entry stored in test_results carries that verdict, and
\* the ratios evaluate_candidate returns are these ratios.
C1_RatioAndMajority ==
    /\ \A i \in DOMAIN fut :
          (fut[i].st = "done" /\ NumRepeatFiles(EvaluatedCandidate, all_tests[i]) >= 1) =>
              LET R == NumRepeatFiles(EvaluatedCandidate, all_tests[i])
                  P == NumPassing(EvaluatedCandidate, all_tests[i])
                  res == fut[i].res[1]
              IN  /\ res.test_avg.n * R = P * res.test_avg.d
                  /\ res.final_passed <=> (2 * P > R)
    /\ (ev_pc \in {"pool", "raising"}) =>
          \A e \in AllEntries(test_results) :
              NumRepeatFiles(EvaluatedCandidate, TestWithId(e.id)) >= 1 =>
                  (e.passed <=> 2 * NumPassing(EvaluatedCandidate, TestWithId(e.id))
                                   > NumRepeatFiles(EvaluatedCandidate, TestWithId(e.id)))
    /\ (main_pc = "aggregate" /\ PoolRan) =>
          \A i \in DOMAIN all_tests :
              Count(ret.all_test_scores, TrueRatio(EvaluatedCandidate, all_tests[i]))
                  = Cardinality({j \in DOMAIN all_tests :
                                   TrueRatio(EvaluatedCandidate, all_tests[j])
                                       = TrueRatio(EvaluatedCandidate, all_tests[i])})

\* C1 witness: a test with two repeat files of which exactly one passes has
\* been evaluated, and its verdict is a fail.
C1_Witness ==
    \E i \in DOMAIN fut :
        /\ fut[i].st = "done"
        /\ NumRepeatFiles(EvaluatedCandidate, all_tests[i]) = 2
        /\ NumPassing(EvaluatedCandidate, all_tests[i]) = 1
        /\ ~fut[i].res[1].final_passed

\* A repeat that cannot be read, or on which the matching function
\* raises, is one failed repeat: it stays in the denominator, the other
\* repeats are still counted, process_test returns a ratio and a verdict,
\* and a worker never raises because of it (a worker raises only when the
\* list it appends to is gone); when the pool has run and
\* evaluate_candidate has returned, every assertion has its ratio.
C2_Counted ==
    /\ \A i \in DOMAIN fut :
          fut[i].st = "done" =>
              LET res == fut[i].res[1]
              IN  /\ res.num_repeats = NumRepeatFiles(EvaluatedCandidate, all_tests[i])
                  /\ res.repeat_passes = NumPassing(EvaluatedCandidate, all_tests[i])
                  /\ res.test_avg = TrueRatio(EvaluatedCandidate, all_tests[i])
    /\ (main_pc = "aggregate" /\ PoolRan) => Len(ret.all_test_scores) = Len(all_tests)

C2_NoAbort ==
    \A i \in DOMAIN fut :
        (fut[i].st = "body" /\ fut'[i].st = "raised") =>
            all_tests[i].page \notin DOMAIN test_results[all_tests[i].pdf]

\* C2: both parts, in every state and at every step: a repeat that fails
\* to read or to run is counted as one failed repeat and aborts nothing.
C2_FailedRepeatCounted == [](C2_Counted) /\ [][C2_NoAbort]_vars

\* C2 witness: a test with an unreadable repeat and a test with a repeat on
\* which the matching function raises have both been evaluated, each over
\* at least two repeats.
C2_Witness ==
    \E i, j \in DOMAIN fut :
        /\ i # j
        /\ fut[i].st = "done"
        /\ fut[j].st = "done"
        /\ NumRepeatFiles(EvaluatedCandidate, all_tests[i]) >= 2
        /\ "unreadable" \in Range(PageContents(EvaluatedCandidate, all_tests[i]))
        /\ "garbled" \in Range(PageContents(EvaluatedCandidate, all_tests[j]))
        /\ fut[i].res[1].num_repeats = NumRepeatFiles(EvaluatedCandidate, all_tests[i])

\* C3 (as claimed): with force off, when the page of some assertion has no
\* repeat file, the overall score evaluate_candidate returns is 0.0.
C3_MissingPageScoresZero ==
    (main_pc = "aggregate" /\ ~force
        /\ \E i \in DOMAIN all_tests : NumRepeatFiles(EvaluatedCandidate, all_tests[i]) = 0)
    => ret.overall_score = RZero

\* How many entries the results hold for the test.
EntriesOf(results, test) ==
    IF test.pdf \in DOMAIN results /\ test.page \in DOMAIN results[test.pdf]
    THEN Count([k \in DOMAIN results[test.pdf][test.page] |-> results[test.pdf][test.page][k].id], test.id)
    ELSE 0

\* C4 (as claimed): when evaluate_candidate returns after the pool has run,
\* test_results holds exactly one entry for every assertion, under every
\* interleaving of the workers.
C4_NoResultLost ==
    (main_pc = "aggregate" /\ PoolRan) =>
        \A i \in DOMAIN all_tests : EntriesOf(ret.test_results, all_tests[i]) = 1

\* The verdict of an assertion for a candidate, from the candidate's files.
TrueVerdict(c, test) == 2 * NumPassing(c, test) > NumRepeatFiles(c, test)
FilesUsed == {test_to_jsonl[all_tests[i].id] : i \in DOMAIN all_tests}
FileTotal(f) == Cardinality({i \in DOMAIN all_tests : test_to_jsonl[all_tests[i].id] = f})
FilePassed(c, f) ==
    Cardinality({i \in DOMAIN all_tests : test_to_jsonl[all_tests[i].id] = f /\ TrueVerdict(c, all_tests[i])})
\* sum over a set of files of passed/total
RECURSIVE SumFileScores(_, _)
SumFileScores(c, files) ==
    IF files = {} THEN RZero
    ELSE LET f == CHOOSE g \in files : TRUE
         IN  RAdd(Rat(FilePassed(c, f), FileTotal(f)), SumFileScores(c, files \ {f}))
MeanOfFileScores(c) == RDivInt(SumFileScores(c, FilesUsed), Cardinality(FilesUsed))

\* C5 (as claimed): for a candidate without errors, the overall score of
\* main is the unweighted mean over the files of passed verdicts / tests.
C5_MeanOfFileMeans ==
    main_pc = "done" =>
        \A k \in DOMAIN summary :
            summary[k].candidate_errors = <<>> =>
                summary[k].overall_score = MeanOfFileScores(summary[k].candidate_name)

\* Every assertion has its entry in the results kept for the candidate.
NothingLost(c) ==
    /\ c \in DOMAIN test_results_by_candidate
    /\ \A i \in DOMAIN all_tests : EntriesOf(test_results_by_candidate[c], all_tests[i]) = 1
HasRepeatError(c) ==
    \E i \in DOMAIN all_tests :
        Range(PageContents(c, all_tests[i])) \cap {"unreadable", "garbled"} # {}
HasMissingPage(c) == \E i \in DOMAIN all_tests : NumRepeatFiles(c, all_tests[i]) = 0

\* C6 (as claimed): when the only errors are read failures or matching
\* exceptions on single repeats, the final overall score is still the mean
\* of the per-file scores of all assertions' verdicts.
C6_RepeatErrorKeepsScore ==
    main_pc = "done" =>
        \A k \in DOMAIN summary :
            LET c == summary[k].candidate_name
            IN  (HasRepeatError(c) /\ ~HasMissingPage(c) /\ NothingLost(c)) =>
                    summary[k].overall_score = MeanOfFileScores(c)

\* C7 (as claimed): with force on, a page without repeat files does not
\* zero the score: the final overall score is the mean of the per-file
\* scores of the verdicts.
C7_ForceToleratesMissing ==
    main_pc = "done" =>
        \A k \in DOMAIN summary :
            LET c == summary[k].candidate_name
            IN  (force /\ HasMissingPage(c) /\ ~HasRepeatError(c) /\ NothingLost(c)) =>
                    summary[k].overall_score = MeanOfFileScores(c)

\* C8 (as claimed): the stored explanation is "All repeats passed" only if
\* no repeat failed.
C8_ExplanationOfFirstFailure ==
    \A i \in DOMAIN fut :
        (fut[i].st = "done" /\ NumRepeatFiles(EvaluatedCandidate, all_tests[i]) >= 1) =>
            (fut[i].res[1].final_explanation = <<"All repeats passed">> =>
                NumPassing(EvaluatedCandidate, all_tests[i])
                    = NumRepeatFiles(EvaluatedCandidate, all_tests[i]))

\* C9: whenever evaluate_candidate has computed and returned its score, no
\* submitted evaluation is pending or running: every future has been
\* yielded by as_completed (or none was submitted).
C9_ScoreAfterAllEvaluations ==
    ev_pc = "returned" => \A i \in DOMAIN fut : fut[i].st \in {"none", "collected"}

\* C9 witness: evaluate_candidate has returned a non-zero score after its
\* pool evaluated at least two assertions.
C9_Witness ==
    /\ ev_pc = "returned"
    /\ main_pc = "aggregate"
    /\ PoolRan
    /\ Len(all_tests) >= 2
    /\ ret.overall_score # RZero

\* Every verdict stored in the results is the one the candidate's files give.
OwnVerdicts(c, results) ==
    \A e \in AllEntries(results) : e.passed <=> TrueVerdict(c, TestWithId(e.id))

\* C10: candidates are evaluated in sorted name order, one after another:
\* while main is between two calls of evaluate_candidate no evaluation is
\* pending or running, the k-th summary entry is the k-th name in sorted
\* order, and every verdict stored for a candidate is the one its own
\* repeat files give, whatever was evaluated before.
C10_SequentialCandidates ==
    /\ \A j, k \in DOMAIN candidate_folders :
          j < k => NameRank(candidate_folders[j]) < NameRank(candidate_folders[k])
    /\ \A k \in DOMAIN summary : summary[k].candidate_name = candidate_folders[k]
    /\ main_pc \in {"loop", "aggregate", "final", "done"} =>
          \A i \in DOMAIN fut : fut[i].st \in {"none", "collected"}
    /\ main_pc = "evaluating" => OwnVerdicts(EvaluatedCandidate, test_results)
    /\ \A c \in DOMAIN test_results_by_candidate : OwnVerdicts(c, test_results_by_candidate[c])

\* C10 witness: the second candidate has been evaluated after the first,
\* and some assertion has opposite verdicts for the two.
C10_Witness ==
    /\ main_pc = "done"
    /\ Len(summary) = 2
    /\ \E i \in DOMAIN all_tests :
          /\ TrueVerdict("c1", all_tests[i]) # TrueVerdict("c2", all_tests[i])
          /\ EntriesOf(test_results_by_candidate["c1"], all_tests[i]) = 1
          /\ EntriesOf(test_results_by_candidate["c2"], all_tests[i]) = 1

\* The place of the assertion with the id in all_tests.
IndexOf(id) == CHOOSE i \in DOMAIN all_tests : all_tests[i].id = id

\* C11 (as claimed): the order of the lines main prints is fixed by the
\* inputs and not by the order in which the workers complete: the [FAIL]
\* lines of a candidate come in the order of the assertions.
C11_OutputOrderFromInputs ==
    \A p, q \in DOMAIN stdout :
        (/\ p < q
         /\ stdout[p][1] = "FAIL"
         /\ stdout[q][1] = "FAIL"
         /\ \A r \in p..q : stdout[r][1] # "Candidate")
        => IndexOf(stdout[p][2].id) < IndexOf(stdout[q][2].id)

\* C12 (as claimed): every missing-file error of discovery names a PDF that
\* some evaluated assertion references, so a PDF without evaluated
\* assertions never short-circuits the candidate.
C12_DiscoveryOnlyReferencedPages ==
    main_pc = "aggregate" =>
        \A k \in DOMAIN ret.candidate_errors :
            ret.candidate_errors[k][1] = "missing_pdf" =>
                \E i \in DOMAIN all_tests : all_tests[i].pdf = ret.candidate_errors[k][2]

\* C13 (as claimed): with --output_failed, when every candidate holds a
\* verdict for every assertion, an assertion is exported iff its verdict
\* is failed for every candidate.
C13_ExportedIffFailedEverywhere ==
    (main_pc = "end" /\ args.output_failed /\ \A c \in Range(candidate_folders) : NothingLost(c)) =>
        \A i \in DOMAIN all_tests :
            (all_tests[i] \in Range(all_failed_tests))
                <=> (\A c \in Range(candidate_folders) : ~TrueVerdict(c, all_tests[i]))

\* How many of the failure messages are about the test.
FailureMessages(failures, id) == Cardinality({k \in DOMAIN failures : failures[k].id = id})

BadInputs ==
    \/ ~input_folder.has_pdfs
    \/ input_folder.pdf_files = <<>>
    \/ input_folder.jsonl_files = <<>>
    \/ \A k \in DOMAIN input_folder.jsonl_files : input_folder.jsonl_files[k].tests = <<>>

\* C15: when the pdfs folder is missing, or no PDF, no .jsonl file or no
\* valid test is found, main has exited with a non-zero code once its
\* checks are over, and it has evaluated no candidate.
C15_ExitsOnMissingInputs ==
    (main_pc # "start" /\ BadInputs) =>
        /\ main_pc = "exited"
        /\ exit_code # None
        /\ exit_code[1] # 0
        /\ ev_pc = "idle"
        /\ cand_idx = 1
        /\ summary = <<>>
        /\ \A p \in DOMAIN stdout : stdout[p][1] # "Evaluating candidate"

\* C15 witness: main has exited with code 1 on a data directory that has
\* PDFs and a .jsonl file but no valid test.
C15_Witness ==
    /\ main_pc = "exited"
    /\ exit_code = <<1>>
    /\ input_folder.has_pdfs
    /\ input_folder.pdf_files # <<>>
    /\ input_folder.jsonl_files # <<>>
    /\ all_tests = <<>>

\* The Levenshtein distance of two strings (Wagner-Fischer): the row of
\* the distances between a prefix of a and every prefix of b, row[j + 1]
\* for the prefix of length j.
RECURSIVE LevRow(_, _, _, _)
LevRow(prev, c, b, row) ==
    IF Len(row) = Len(b) + 1 THEN row
    ELSE LET j == Len(row)
         IN  LevRow(prev, c, b,
                    Append(row, Min3(prev[j] + (IF c = b[j] THEN 0 ELSE 1), prev[j + 1] + 1, row[j] + 1)))

RECURSIVE LevRows(_, _, _)
LevRows(a, b, prev) ==
    IF a = <<>> THEN prev ELSE LevRows(Tail(a), b, LevRow(prev, Head(a), b, <<prev[1] + 1>>))

Levenshtein(a, b) == LevRows(a, b, [j \in 1..(Len(b) + 1) |-> j - 1])[Len(b) + 1]

\* The substring t[s:e] for 0 <= s <= e <= len(t).
Substring(t, s, e) == IF s = e THEN <<>> ELSE SubSeq(t, s + 1, e)
Spans(t) == {se \in (0..Len(t)) \X (0..Len(t)) : se[1] <= se[2]}
\* the distance between p and every substring of t
SpanDistances(p, t) == [se \in Spans(t) |-> Levenshtein(p, Substring(t, se[1], se[2]))]
MinSpanDistance(ds) == CHOOSE d \in Range(ds) : \A se \in DOMAIN ds : ds[se] >= d
EndsAtDistance(ds, d) == {se[2] : se \in {x \in DOMAIN ds : ds[x] = d}}
SmallestBestEnd(ds) ==
    CHOOSE e \in EndsAtDistance(ds, MinSpanDistance(ds)) :
        \A e2 \in EndsAtDistance(ds, MinSpanDistance(ds)) : e <= e2
Occurs(p, t) == \E se \in Spans(t) : Substring(t, se[1], se[2]) = p
BestEndFound == math_pc = "backtrack" \/ (math_pc = "done" /\ DOMAIN dp # {})

\* C16: for a candidate p of at least one character and a text t, the
\* distance find_best_end(compute_dp(p, t), m, n) returns is the least
\* Levenshtein distance between p and a substring of t (the empty one
\* included), the end it returns is the smallest end of a substring at
\* that distance, and the distance is 0 when p occurs in t.
C16_BestEndIsMinimal ==
    (BestEndFound /\ Len(candidate_arr) >= 1) =>
        LET ds == SpanDistances(candidate_arr, text_arr)
        IN  /\ min_distance = MinSpanDistance(ds)
            /\ best_end = SmallestBestEnd(ds)
            /\ Occurs(candidate_arr, text_arr) => min_distance = 0

\* C16 witness: find_best_end has returned distance 0 and the end of the
\* first occurrence of a candidate that occurs again further in the text.
C16_Witness ==
    /\ BestEndFound
    /\ Len(candidate_arr) >= 1
    /\ min_distance = 0
    /\ Occurs(candidate_arr, text_arr)
    /\ \E e \in EndsAtDistance(SpanDistances(candidate_arr, text_arr), 0) : e > best_end

\* The start backtrack returns and the span find_matching_content cuts.
C17_Span ==
    /\ math_pc = "backtrack" => (bt_i >= 0 /\ bt_j >= 0 /\ bt_j <= best_end)
    /\ (math_pc = "done" /\ matched.found) =>
          /\ 0 <= bt_j
          /\ bt_j <= best_end
          /\ best_end <= Len(text_arr)
          /\ matched.text = Substring(text_arr, bt_j, best_end)
          /\ Levenshtein(candidate_arr, matched.text) = min_distance

\* C17: backtrack terminates, and the start it returns satisfies
\* 0 <= start <= best_end <= len(t) and cuts a span t[start:best_end]
\* whose Levenshtein distance to p is the distance find_best_end reported.
C17_BacktrackRecoversSpan ==
    /\ [](C17_Span)
    /\ (math_pc = "backtrack") ~> (math_pc = "done")

\* C17 witness: backtrack has returned a start after the first character
\* of the text, for a span at distance 1 that is shorter than the
\* candidate.
C17_Witness ==
    /\ math_pc = "done"
    /\ matched.found
    /\ min_distance = 1
    /\ bt_j >= 1
    /\ matched.text # <<>>
    /\ Len(matched.text) < Len(candidate_arr)

\* The assertions for which the results hold an entry, and the place of
\* such an assertion among them when they are grouped by provenance file
\* (files in the order of their first assertion).
HasEntry(results, i) == EntriesOf(results, all_tests[i]) >= 1
FileRank(i) ==
    CHOOSE k \in DOMAIN JsonlOrder(all_tests, {}) :
        JsonlOrder(all_tests, {})[k] = test_to_jsonl[all_tests[i].id]
Before(j, i) == FileRank(j) < FileRank(i) \/ (FileRank(j) = FileRank(i) /\ j < i)
PlaceOf(results, i) == 1 + Cardinality({j \in DOMAIN all_tests : HasEntry(results, j) /\ Before(j, i)})
OutcomesOfFile(results, f) ==
    Cardinality({j \in DOMAIN all_tests : HasEntry(results, j) /\ test_to_jsonl[all_tests[j].id] = f})
FilesWithOutcomes(results) ==
    SelectSeq(JsonlOrder(all_tests, {}), LAMBDA f : OutcomesOfFile(results, f) >= 1)

\* What main handed to the bootstrap for the candidate is well formed.
WellFormedStratification(c, ci, errors) ==
    LET results == ResultsOf(c)
    IN  /\ \A p \in DOMAIN ci.scores : ci.scores[p] \in {0, 1}
        /\ \A k \in DOMAIN ci.splits : ci.splits[k] >= 1
        /\ SumInts(ci.splits) = Len(ci.scores)
        /\ ci.bootstrap <=> ci.scores # <<>>
        /\ errors # <<>> => (~ci.bootstrap /\ ci.splits = <<>>)
        /\ errors = <<>> =>
              /\ Len(ci.scores) = Cardinality({i \in DOMAIN all_tests : HasEntry(results, i)})
              /\ \A i \in DOMAIN all_tests :
                    HasEntry(results, i) =>
                        ci.scores[PlaceOf(results, i)] = (IF TrueVerdict(c, all_tests[i]) THEN 1 ELSE 0)
              /\ Len(ci.splits) = Len(FilesWithOutcomes(results))
              /\ \A k \in DOMAIN ci.splits :
                    ci.splits[k] = OutcomesOfFile(results, FilesWithOutcomes(results)[k])

\* C18: for every candidate, the outcomes main hands to the bootstrap are
\* the 0/1 majority verdicts, grouped by provenance file, splits holds
\* the size of every file that has an outcome and sums to the number of
\* outcomes; a candidate with errors has no outcome and no bootstrap call.
C18_WellFormedStratification ==
    \A k \in DOMAIN summary :
        WellFormedStratification(summary[k].candidate_name, summary[k].ci, summary[k].candidate_errors)

\* C18 witness: the bootstrap was called with the outcomes of two files of
\* sizes 2 and 1, one of them the 0 of an assertion that passed one repeat
\* of two.
C18_Witness ==
    \E k \in DOMAIN summary :
        /\ summary[k].ci.bootstrap
        /\ summary[k].ci.splits = <<2, 1>>
        /\ summary[k].ci.scores = <<0, 1, 1>>
        /\ TrueRatio(summary[k].candidate_name, all_tests[1]) = RHalf

\* The assertions as load_tests returned them.
LoadedTests == LoadAll(input_folder.jsonl_files).tests

\* The evaluated assertions, and those handed to save_tests, are loaded
\* assertions with every field as loaded.
AssertionsAsLoaded ==
    /\ \A i \in DOMAIN all_tests : \E k \in DOMAIN LoadedTests : all_tests[i] = LoadedTests[k]
    /\ \A i \in DOMAIN all_failed_tests : \E k \in DOMAIN LoadedTests : all_failed_tests[i] = LoadedTests[k]

\* C19: no step of evaluate_candidate or of main's aggregation, final
\* summary and export changes an assertion: all_tests and the provenance
\* map stay as they are at every step, and every assertion in all_tests
\* or handed to save_tests has the fields it was loaded with.
C19_AssertionsNeverMutated ==
    /\ [](AssertionsAsLoaded)
    /\ [][all_tests' = all_tests /\ test_to_jsonl' = test_to_jsonl]_vars

\* C19 witness: main has ended after two candidates were evaluated and
\* aggregated and a failed assertion was exported.
C19_Witness ==
    /\ main_pc = "end"
    /\ Len(summary) = 2
    /\ all_failed_tests # <<>>
    /\ \A c \in Candidates : NothingLost(c)

\* C20: in the review app started with --force on a dataset with at least
\* one PDF, no response is the "All done" page, whatever requests came
\* before and whatever the tests' checked values are.
C20_ForceNeverAllDone ==
    (FORCE /\ ALL_PDFS # <<>>) => rendered[1] # "all_done.html"

\* C20 witness: with --force, index has rendered the review page of the
\* first PDF after being called with no current PDF, every test being
\* verified or rejected.
C20_Witness ==
    /\ FORCE
    /\ Len(ALL_PDFS) = 2
    /\ rendered = <<"review.html", ALL_PDFS[1], 0>>
    /\ find_next_unchecked_pdf = None
    /\ \E k \in DOMAIN PDF_TESTS["a"] : PDF_TESTS["a"][k].checked = "verified"

\* C21: delete_rejected run with --force never asks for a confirmation, and
\* once it has ended on a data directory with pdfs/ and dataset files, no
\* rejected test is left in a dataset file and no orphaned or unreferenced
\* PDF is left under pdfs/; run without --force it leaves the dataset
\* files and the PDFs as they were.
C21_ForceDeletesWithoutConfirmation ==
    /\ [](~dry_run => dr_pc # "input")
    /\ []((~dry_run /\ dr_pc = "done" /\ data_dir.has_pdfs /\ data_dir.files # <<>>)
            => ~SomethingToDelete(data_dir))
    /\ [][dry_run => data_dir' = data_dir]_vars

\* the baseline tests the dataset files hold for the PDF
FileBaselines(pdf) ==
    {t \in Range(LoadAll(input_folder.jsonl_files).tests) : t.type = "baseline" /\ t.pdf = pdf}

\* main has built the set of tests it evaluates
TestsPrepared == main_pc \in {"loop", "final", "done", "end"}

\* C22: once main has prepared the tests, without --skip_baseline and
\* without --sample every PDF has a baseline test in the evaluated set, and
\* a PDF without one in the dataset files has the injected one, on page 1
\* and in the group "baseline"; with --skip_baseline no evaluated test is a
\* baseline test and no test counts for the group "baseline".
C22_BaselineInjection ==
    TestsPrepared =>
        /\ (~args.skip_baseline /\ args.sample = 0) =>
              \A pdf \in Range(pdf_basenames) :
                  /\ \E i \in DOMAIN all_tests : all_tests[i].type = "baseline" /\ all_tests[i].pdf = pdf
                  /\ FileBaselines(pdf) = {} =>
                        /\ \E i \in DOMAIN all_tests :
                              /\ all_tests[i] = [id |-> BaselineId(pdf), pdf |-> pdf, page |-> 1, type |-> "baseline"]
                              /\ \A j \in DOMAIN all_tests : all_tests[j].id = BaselineId(pdf) => j = i
                        /\ test_to_jsonl[BaselineId(pdf)] = "baseline"
        /\ args.skip_baseline =>
              /\ \A i \in DOMAIN all_tests : all_tests[i].type # "baseline"
              /\ "baseline" \notin Range(JsonlOrder(all_tests, {}))

\* C22 witness: main has printed the final summary of a run without
\* --skip_baseline and --sample, on a dataset whose file holds a baseline
\* test for PDF a and none for PDF b: b has the injected one, a has not,
\* and the group "baseline" is one of the groups of the mean.
C22_Witness ==
    /\ main_pc = "done"
    /\ ~args.skip_baseline
    /\ args.sample = 0
    /\ FileBaselines("a") # {}
    /\ \E i \in DOMAIN all_tests : all_tests[i].id = BaselineId("b")
    /\ \A i \in DOMAIN all_tests : all_tests[i].id # BaselineId("a")
    /\ "baseline" \in Range(JsonlOrder(all_tests, {}))
    /\ summary # <<>>

\* C23: whenever no update_test or reject_all request is in flight, the
\* dataset file holds the field values of the tests in PDF_TESTS.
C23_NoUpdateLostOnDisk ==
    (\A th \in DOMAIN threads : Idle(th)) => dataset_file = save_dataset(PDF_TESTS)

\* C24: in the review app CURRENT_PDF is None or one of ALL_PDFS; prev_pdf
\* at the first PDF and goto_pdf with an index out of range leave it as it
\* is; and without --force it goes from a PDF to None only when no test of
\* the dataset is unchecked.
C24_CurrentPdfInvariants ==
    /\ [](CURRENT_PDF = None \/ InAllPdfs(CURRENT_PDF))
    /\ [][(prev_pdf /\ InAllPdfs(CURRENT_PDF) /\ IndexInAllPdfs(CURRENT_PDF) = 0)
            => CURRENT_PDF' = CURRENT_PDF]_vars
    /\ [][\A idx \in -1..Len(ReviewPdfs) :
            (goto_pdf(idx) /\ ~(0 <= idx /\ idx < Len(ALL_PDFS))) => CURRENT_PDF' = CURRENT_PDF]_vars
    /\ [][(~FORCE /\ CURRENT_PDF # None /\ CURRENT_PDF' = None)
            => \A pdf \in DOMAIN PDF_TESTS : \A k \in DOMAIN PDF_TESTS[pdf] :
                   PDF_TESTS[pdf][k].checked # "null"]_vars

\* C24 witness: without --force, on a dataset of two PDFs whose tests have
\* all been checked, a navigation request has left CURRENT_PDF at None.
C24_Witness ==
    /\ ~FORCE
    /\ Len(ALL_PDFS) = 2
    /\ CURRENT_PDF = None
    /\ rendered = <<"redirect", "index">>
    /\ \E k \in DOMAIN PDF_TESTS["b"] : PDF_TESTS["b"][k].checked = "verified"

\* every file of the state file is completed or errored_out
AllFinished == \A f \in DOMAIN all_state : all_state[f].state \in {"completed", "errored_out"}

\* C25: in process_folder a file's state changes only from init to
\* processing and from processing to completed or errored_out; the entry of
\* a completed or errored_out file is never picked and never changes; a
\* processing file has a batch id; and the loop ends when, and only when,
\* every file is completed or errored_out.
C25_FileStateMachine ==
    /\ [][\A f \in DOMAIN all_state :
            \/ all_state'[f].state = all_state[f].state
            \/ all_state[f].state = "init" /\ all_state'[f].state = "processing"
            \/ all_state[f].state = "processing" /\ all_state'[f].state \in {"completed", "errored_out"}]_vars
    /\ [][\A f \in DOMAIN all_state :
            all_state[f].state \in {"completed", "errored_out"}
                => /\ all_state'[f] = all_state[f]
                   /\ (pf_pc = "loop" /\ pf_pc' = "loop") => work_item' # <<f>>]_vars
    /\ [](\A f \in DOMAIN all_state : all_state[f].state = "processing" => all_state[f].batch_id # None)
    /\ [](pf_pc = "done" => AllFinished)
    /\ [][pf_pc = "loop" => (AllFinished <=> pf_pc' = "done")]_vars

\* C25 witness: process_folder has ended with a completed and an
\* errored_out file.
C25_Witness ==
    /\ pf_pc = "done"
    /\ \E f, g \in DOMAIN all_state : all_state[f].state = "completed" /\ all_state[g].state = "errored_out"

\* C26: the sizes of the files in state processing never add up to more
\* than --max_gb.
C26_ProcessingWithinMaxGb ==
    get_estimated_space_usage <= max_gb

\* C27: an unfinished file has waited for fewer iterations than there were
\* unfinished files when it was last picked (at the start: than there are
\* files), and if uploads succeed in the end and batches end in the end,
\* process_folder ends.
C27_NoStarvation ==
    /\ [](\A f \in DOMAIN all_state :
            all_state[f].state \notin {"completed", "errored_out"} => waited[f] < unfinished_then[f])
    /\ <>(pf_pc \in {"done", "raised"})

\* C27 witness: a file has waited for two iterations while the two others
\* were picked, one of them now processing and the other still init after
\* a failed upload or a wait.
C27_Witness ==
    /\ pf_pc = "loop"
    /\ \E f, g, h \in DOMAIN all_state :
          /\ waited[f] = 2 /\ unfinished_then[f] = 3
          /\ waited[g] = 1 /\ all_state[g].state = "processing"
          /\ waited[h] = 0 /\ all_state[h].state = "init"

\* the process_pdf conversions that are running
Converting == {t \in DOMAIN tasks : tasks[t].state = "converting"}

\* C28: in process_pdfs at most max_parallel conversions (one when
\* max_parallel is None or 0) run at the same time; no task is awaited
\* twice; when the completion count is printed every prepared task has
\* been awaited once and collected; and the count is printed in the end
\* when there is a task.
C28_BoundedParallelConversions ==
    /\ [](Cardinality(Converting) <=
            (IF max_parallel = None THEN 1 ELSE IF max_parallel[1] = 0 THEN 1 ELSE max_parallel[1]))
    /\ [](\A t \in DOMAIN tasks : tasks[t].awaited <= 1)
    /\ [](printed # None =>
            /\ \A t \in DOMAIN tasks : tasks[t].awaited = 1 /\ tasks[t].state = "collected"
            /\ pbar = Len(tasks)
            /\ printed[4] = Len(tasks))
    /\ (tasks # <<>>) ~> (printed # None)

\* C28 witness: with --parallel 2 and three tasks, two conversions run
\* while the third task waits for the semaphore.
C28_Witness ==
    /\ max_parallel = <<2>>
    /\ Len(tasks) = 3
    /\ Cardinality(Converting) = 2
    /\ \E t \in DOMAIN tasks : tasks[t].state = "scheduled"
    /\ semaphore = 0

====
